---- MODULE Spec2Model ----
(***************************************************************************)
(* Identity & access control engine of node-boilertemplate: the session    *)
(* manager (auth.service login / refreshToken / logout / logoutAll), the   *)
(* token service and token store, the login-lockout guard of the user      *)
(* model, the JWT helpers, the authenticate middleware and the role        *)
(* operations that change what a user's role grants.                       *)
(*                                                                         *)
(* Time is counted in seconds (the resolution of the iat/exp claims of a   *)
(* JWT).  Every service function is one action: the handlers are modelled  *)
(* whole, in the order of their statements.                                *)
(*                                                                         *)
(* mailer is the e-mail side of the engine: how many random tokens         *)
(* crypto.randomBytes has produced and the messages that were delivered.   *)
(* calls holds the service calls that are in flight when calls of          *)
(* different requests interleave at their awaits.  breaker is the closure  *)
(* of one circuit breaker made by createCircuitBreaker.                    *)
(***************************************************************************)
EXTENDS Integers, FiniteSets, Sequences, TLC

VARIABLES now, advances, users, roles, tokens, issued, held, resp, hist,
          mailer, calls, breaker

vars == <<now, advances, users, roles, tokens, issued, held, resp, hist, mailer, calls,
          breaker>>

(***************************************************************************)
(* Bounds of the model.                                                    *)
(***************************************************************************)
MaxAdvance == 2
MaxIssued == 2
MaxMinted == 3

(***************************************************************************)
(* Program constants.                                                      *)
(***************************************************************************)
MaxLoginAttempts == 5
LockDuration == 2 * 60 * 60
RefreshRecordTTL == 7 * 24 * 60 * 60
AccessExpiresIn == 15 * 60
RefreshExpiresIn == 7 * 24 * 60 * 60
JwtSecret == "your-super-secret-jwt-key-here"
JwtRefreshSecret == "your-super-secret-refresh-key-here"

NoDate == -1
NoUser == "none"
\* an ephemeral token field that is undefined
NoToken == 0
ResetTTL == 1 * 60 * 60
VerificationTTL == 24 * 60 * 60

UserIds == {"u1", "u2"}
\* the ids the database gives to the users that register
NewUserIds == {"u3"}
RoleIds == {"admin", "user", "moderator"}
\* the id the database gives to the role an administrator creates
NewRoleIds == {"r4"}
\* a description that was never set
NoDescription == "undefined"

\* the credentials clients present: right ones for both users, a wrong password
\* for the second user, and an e-mail address nobody registered
LoginInputs ==
  {<<"admin@example.com", "Admin@123">>, <<"John.Doe@example.com", "User@123">>,
   <<"John.Doe@example.com", "Admin@123">>, <<"nobody@example.com", "User@123">>}
OwnCredentials ==
  {<<"admin@example.com", "Admin@123">>, <<"John.Doe@example.com", "User@123">>}
\* the accounts the administrator's operations are applied to
ManagedUsers == {"u2"}
\* the addresses recovery is asked for: a seeded user's and nobody's
RecoveryEmails == {"john.doe@example.com", "nobody@example.com"}
NewPasswords == {"Fresh@456"}
\* what a user types as the current password: the seeded one, the new one
CurrentPasswords == {"User@123", "Fresh@456"}
RegisterInputs == {<<"jane.roe@example.com", "User@123">>}
VerificationEmails == {"jane.roe@example.com", "nobody@example.com"}
\* the requests that can be in flight at once
Procs == {"p1", "p2"}
Idle == [pc |-> "idle"]
StatusInputs == {<<TRUE, FALSE>>, <<FALSE, FALSE>>, <<FALSE, TRUE>>}
PermissionSets == {{"auth:login", "content:read"}, {"auth:login", "user:read", "content:publish"}}
\* the permissions an administrator adds to a role or removes from it
PermissionChanges == {{"content:publish"}}
\* the bodies of POST /roles: a new name and one that differs from a seeded
\* name in its case only
RoleDataInputs ==
  {[name |-> n, permissions |-> {"content:read"}, isDefault |-> d, isSystem |-> s] :
     n \in {"editor", "Moderator"}, d \in BOOLEAN, s \in BOOLEAN}
\* what updateRole is handed: one field each
UpdateDataInputs ==
  {[name |-> "Content Editor"], [isActive |-> FALSE],
   [description |-> "Edits content"], [isDefault |-> TRUE]}

\* createCircuitBreaker(fn, failureThreshold = 5, timeoutMs = 5000): the
\* defaults, the timeout in seconds, and the variables of the closure
FailureThreshold == 5
BreakerTimeout == 5
BreakerInit == [failures |-> 0, lastFailureTime |-> 0, state |-> "CLOSED"]

\* String.prototype.toLowerCase over the e-mail addresses of the model
toLowerCase(e) == IF e = "John.Doe@example.com" THEN "john.doe@example.com" ELSE e

\* bcrypt: the stored value is a hash, never the password itself
hashPassword(p) == <<"bcrypt", p>>
comparePassword(p, hash) == hash = hashPassword(p)
\* the user model hashes a changed password when the record is saved (the seed
\* and register hand save() the password itself); a value that is a hash
\* already is hashed again
hashOnSave(hash) == <<"bcrypt">> \o hash

(***************************************************************************)
(* ApiError factories: an error is its status code and its message.        *)
(***************************************************************************)
ApiError(message, statusCode) == [statusCode |-> statusCode, message |-> message]
badRequest(message) == ApiError(message, 400)
unauthorized(message) == ApiError(message, 401)
forbidden(message) == ApiError(message, 403)
notFound(message) == ApiError(message, 404)
conflict(message) == ApiError(message, 409)
internalError(message) == ApiError(message, 500)
invalidCredentials(message) == ApiError(message, 401)

NoData == [none |-> TRUE]
Failure(op, arg, err) ==
  [op |-> op, arg |-> arg, statusCode |-> err.statusCode, message |-> err.message, data |-> NoData]
Success(op, arg, message, data) ==
  [op |-> op, arg |-> arg, statusCode |-> 200, message |-> message, data |-> data]
\* ApiResponse.created
Created(op, arg, message, data) ==
  [op |-> op, arg |-> arg, statusCode |-> 201, message |-> message, data |-> data]
\* a step that answers no client
Quiet(op) == [op |-> op, arg |-> NoData, statusCode |-> 0, message |-> "", data |-> NoData]

(***************************************************************************)
(* JWT helpers (config/jwt.js).  A token is its payload, the secret that   *)
(* signed it and the iat/exp claims jwt.sign adds; signing the same        *)
(* payload with the same secret in the same second gives the same token.   *)
(***************************************************************************)
sign(payload, secret, expiresIn, t) ==
  [payload |-> payload, secret |-> secret, iat |-> t, exp |-> t + expiresIn]
generateAccessToken(payload, t) == sign(payload, JwtSecret, AccessExpiresIn, t)

\* signs refresh tokens with the key of the access tokens
generateRefreshToken_accessSecret(payload, t) == sign(payload, JwtSecret, RefreshExpiresIn, t)
generateRefreshToken(payload, t) == sign(payload, JwtRefreshSecret, RefreshExpiresIn, t)

\* jwt.verify: "ok", or the name of the error it throws
verify(token, secret, t) ==
  IF token.secret # secret THEN "JsonWebTokenError"
  ELSE IF t >= token.exp THEN "TokenExpiredError"
  ELSE "ok"
verifyAccessToken(token, t) == verify(token, JwtSecret, t)
verifyJWTRefreshToken(token, t) == verify(token, JwtRefreshSecret, t)

\* a token signed with a key the server does not know
ForgedToken ==
  [payload |-> [id |-> "u1", email |-> "admin@example.com", role |-> "admin"],
   secret |-> "attacker-key", iat |-> 0, exp |-> RefreshExpiresIn]

(***************************************************************************)
(* User model: lockout guard and lookups.                                  *)
(***************************************************************************)
\* the comparison turned round
isLocked_inverted(user, t) == user.lockUntil # NoDate /\ user.lockUntil < t
isLocked(user, t) == user.lockUntil # NoDate /\ user.lockUntil > t

\* starts the count again at 1 once a lock has run out
incrementLoginAttempts_restarts(user, t) ==
  IF user.lockUntil # NoDate /\ user.lockUntil <= t
  THEN [user EXCEPT !.loginAttempts = 1, !.lockUntil = NoDate]
  ELSE [user EXCEPT !.loginAttempts = user.loginAttempts + 1,
                    !.lockUntil = IF user.loginAttempts + 1 >= MaxLoginAttempts
                                  THEN t + LockDuration ELSE @]
\* locks one attempt late
incrementLoginAttempts_late(user, t) ==
  [user EXCEPT !.loginAttempts = user.loginAttempts + 1,
               !.lockUntil = IF user.loginAttempts + 1 > MaxLoginAttempts
                             THEN t + LockDuration ELSE @]
incrementLoginAttempts(user, t) ==
  [user EXCEPT !.loginAttempts = user.loginAttempts + 1,
               !.lockUntil = IF user.loginAttempts + 1 >= MaxLoginAttempts
                             THEN t + LockDuration ELSE @]

\* resets the counter and leaves the lock
resetLoginAttempts_counterOnly(user) ==
  [user EXCEPT !.loginAttempts = 0]
resetLoginAttempts(user) ==
  [user EXCEPT !.loginAttempts = 0, !.lockUntil = NoDate]

findByEmail(email) ==
  LET found == {u \in DOMAIN users : users[u].email = toLowerCase(email) /\ ~users[u].isDeleted}
  IN IF found = {} THEN NoUser ELSE CHOOSE u \in found : TRUE

(***************************************************************************)
(* Token model (token store).                                              *)
(***************************************************************************)
\* forgets the revoked flag
findValidToken_ignoresRevoked(store, token, type, t) ==
  {r \in store : r.token = token /\ r.type = type /\ r.expiresAt > t}
findValidToken(store, token, type, t) ==
  {r \in store : r.token = token /\ r.type = type /\ ~r.isRevoked /\ r.expiresAt > t}

\* updateOne in place of updateMany: a single record is revoked
revokeAllForUser_one(store, userId, type) ==
  LET hit == {r \in store : r.userId = userId /\ r.type = type} IN
  IF hit = {} THEN store
  ELSE LET r == CHOOSE x \in hit : TRUE
       IN (store \ {r}) \cup {[r EXCEPT !.isRevoked = TRUE]}
revokeAllForUser(store, userId, type) ==
  {IF r.userId = userId /\ r.type = type THEN [r EXCEPT !.isRevoked = TRUE] ELSE r : r \in store}

cleanExpired(store, t) == {r \in store : ~(r.expiresAt < t)}

(***************************************************************************)
(* Token service.                                                          *)
(***************************************************************************)
\* new Token({userId, token, type: 'refresh'}) with the pre-save default expiry
newRefreshRecord(userId, token, t) ==
  [userId |-> userId, token |-> token, type |-> "refresh",
   expiresAt |-> t + RefreshRecordTTL, isRevoked |-> FALSE]

\* save() is rejected by the unique index on token
storeRefreshTokenFails(store, token) == \E r \in store : r.token = token

\* tokenService.verifyRefreshToken: "ok" or the error it throws
verifyRefreshToken(store, token, t) ==
  LET v == verifyJWTRefreshToken(token, t) IN
  IF v = "TokenExpiredError" THEN unauthorized("Refresh token expired")
  ELSE IF v = "JsonWebTokenError" THEN unauthorized("Invalid refresh token")
  ELSE IF findValidToken(store, token, "refresh", t) = {} THEN unauthorized("Invalid refresh token")
  ELSE ApiError("ok", 200)

checkRefreshToken(store, token, t) == findValidToken(store, token, "refresh", t) # {}

\* flips the flag where it should set it
removeRefreshToken_toggle(store, token) ==
  LET hit == {r \in store : r.token = token /\ r.type = "refresh"} IN
  IF hit = {} THEN store
  ELSE LET r == CHOOSE x \in hit : TRUE
       IN (store \ {r}) \cup {[r EXCEPT !.isRevoked = ~r.isRevoked]}
\* Token.findOneAndUpdate({token, type: 'refresh'}, {isRevoked: true})
removeRefreshToken(store, token) ==
  LET hit == {r \in store : r.token = token /\ r.type = "refresh"} IN
  IF hit = {} THEN store
  ELSE LET r == CHOOSE x \in hit : TRUE
       IN (store \ {r}) \cup {[r EXCEPT !.isRevoked = TRUE]}

removeAllRefreshTokens(store, userId) == revokeAllForUser(store, userId, "refresh")

(***************************************************************************)
(* History of the run, kept for the properties: it records what clients    *)
(* did and saw and is never read by an operation.                          *)
(*   streak[u]     wrong-password attempts in a row against account u      *)
(*   windowEnd[u]  two hours after the latest attempt that made it 5       *)
(*   noUser        the answer to the last login for an unknown e-mail      *)
(*   wrongPw       the answer to the last login with a wrong password for  *)
(*                 an account that was active and not locked               *)
(*   loggedOutAll  the refresh tokens a user held when logoutAll ran       *)
(*   repeat        the last refresh or logout came right after a           *)
(*                 successful call of the same operation with the same     *)
(*                 token                                                   *)
(*   forgotKnown   the answer to the last forgotPassword for an e-mail of  *)
(*                 an account, forgotUnknown for an e-mail of no account   *)
(*   resendKnown   the same two for resendVerification                     *)
(*   consumed      the ephemeral tokens a resetPassword or a verifyEmail   *)
(*                 has accepted                                            *)
(*   beforeReset   the refresh tokens a user held when a password reset    *)
(*                 of that user succeeded                                  *)
(***************************************************************************)
NoOutcome == <<0, "">>
Outcome(r) == <<r.statusCode, r.message>>

HistInit ==
  [streak |-> [u \in UserIds \cup NewUserIds |-> 0],
   windowEnd |-> [u \in UserIds \cup NewUserIds |-> NoDate],
   noUser |-> NoOutcome, wrongPw |-> NoOutcome, loggedOutAll |-> {}, repeat |-> FALSE,
   forgotKnown |-> NoOutcome, forgotUnknown |-> NoOutcome,
   resendKnown |-> NoOutcome, resendUnknown |-> NoOutcome,
   consumed |-> {}, beforeReset |-> {}]

\* the accounts a client can address by this e-mail (soft-deleted ones are gone)
AccountsOf(email) ==
  {u \in DOMAIN users : users[u].email = toLowerCase(email) /\ ~users[u].isDeleted}
RightPassword(u, password) == users[u].password = hashPassword(password)
InWindow(u) == hist.windowEnd[u] # NoDate /\ now < hist.windowEnd[u]
FieldsLocked(u) == users[u].lockUntil # NoDate /\ users[u].lockUntil > now

HistLogin(email, password) ==
  IF AccountsOf(email) = {} THEN [hist EXCEPT !.noUser = Outcome(resp')]
  ELSE LET u == CHOOSE a \in AccountsOf(email) : TRUE IN
    IF InWindow(u) \/ ~users[u].isActive THEN hist
    ELSE IF RightPassword(u, password) THEN [hist EXCEPT !.streak[u] = 0]
    ELSE LET n == IF hist.streak[u] < MaxLoginAttempts THEN hist.streak[u] + 1 ELSE hist.streak[u]
             h == [hist EXCEPT !.streak[u] = n,
                               !.windowEnd[u] = IF n >= MaxLoginAttempts THEN now + LockDuration ELSE @]
         IN IF FieldsLocked(u) THEN h ELSE [h EXCEPT !.wrongPw = Outcome(resp')]

HistRepeat(op, token) ==
  [hist EXCEPT !.repeat = resp.op = op /\ resp.statusCode = 200 /\ resp.arg = token]

HistForgot(email) ==
  IF AccountsOf(email) = {} THEN [hist EXCEPT !.forgotUnknown = Outcome(resp')]
  ELSE [hist EXCEPT !.forgotKnown = Outcome(resp')]

HistResend(email) ==
  IF AccountsOf(email) = {} THEN [hist EXCEPT !.resendUnknown = Outcome(resp')]
  ELSE [hist EXCEPT !.resendKnown = Outcome(resp')]

HistConsume(token) ==
  IF resp'.statusCode = 200 THEN [hist EXCEPT !.consumed = @ \cup {token}] ELSE hist

HistReset(token) ==
  LET owners == {u \in DOMAIN users : users[u].passwordResetToken = token} IN
  IF resp'.statusCode = 200
  THEN [hist EXCEPT !.consumed = @ \cup {token},
                    !.beforeReset = @ \cup {t \in issued : t.payload.id \in owners}]
  ELSE hist

HistLogoutAll(userId) ==
  [hist EXCEPT !.loggedOutAll = @ \cup {t \in issued : t.payload.id = userId}]

(***************************************************************************)
(* Initial state: the seeded database (three roles, two users), no tokens. *)
(***************************************************************************)
SeedUser(email, password, role) ==
  [email |-> email, password |-> hashPassword(password), role |-> role,
   isActive |-> TRUE, isDeleted |-> FALSE,
   loginAttempts |-> 0, lockUntil |-> NoDate, lastLogin |-> NoDate,
   isEmailVerified |-> TRUE, isSystem |-> FALSE,
   passwordResetToken |-> NoToken, passwordResetExpires |-> NoDate,
   emailVerificationToken |-> NoToken, emailVerificationExpires |-> NoDate]

\* seedRoles, each permission list cut to three of its entries
SeedRole(name) ==
  [name |-> name,
   description |-> CASE name = "admin" -> "Administrator with full access"
                     [] name = "user" -> "Regular user with basic permissions"
                     [] OTHER -> "Moderator with content management permissions",
   permissions |-> CASE name = "admin" -> {"admin:all", "user:read", "content:publish"}
                     [] name = "user" -> {"auth:login", "profile:read", "content:read"}
                     [] OTHER -> {"auth:login", "user:read", "content:publish"},
   isDefault |-> name = "user",
   isSystem |-> name \in {"admin", "user"},
   isActive |-> TRUE, isDeleted |-> FALSE]

Init ==
  /\ now = 0
  /\ advances = 0
  /\ users = [u \in UserIds |->
                IF u = "u1" THEN SeedUser("admin@example.com", "Admin@123", "admin")
                ELSE SeedUser("john.doe@example.com", "User@123", "user")]
  /\ roles = [r \in RoleIds |-> SeedRole(r)]
  /\ tokens = {}
  /\ issued = {}
  /\ held = {}
  /\ resp = Quiet("init")
  /\ hist = HistInit
  /\ mailer = [minted |-> 0, outbox |-> {}]
  /\ calls = [p \in Procs |-> Idle]
  /\ breaker = BreakerInit

(***************************************************************************)
(* Session manager: login.                                                 *)
(***************************************************************************)
\* the errors login throws before it verifies the password, and after
\* tells the caller that the e-mail is unknown
userNotFoundError_revealing == notFound("User not found")
userNotFoundError == invalidCredentials("Invalid email or password")
accountLockedError == unauthorized("Account is temporarily locked. Please try again later.")
\* names the password as what was wrong
wrongPasswordError_revealing == invalidCredentials("Incorrect password")
wrongPasswordError == invalidCredentials("Invalid email or password")

login(email, password) ==
  LET arg == [email |-> email, password |-> password]
      uid == findByEmail(email)
  IN
  IF uid = NoUser THEN
    /\ resp' = Failure("login", arg, userNotFoundError)
    /\ UNCHANGED <<users, tokens, issued, held>>
  ELSE LET user == users[uid] IN
  IF isLocked(user, now) THEN
    /\ resp' = Failure("login", arg, accountLockedError)
    /\ UNCHANGED <<users, tokens, issued, held>>
  ELSE IF ~user.isActive \/ user.isDeleted THEN
    /\ resp' = Failure("login", arg, unauthorized("Account is deactivated or deleted"))
    /\ UNCHANGED <<users, tokens, issued, held>>
  ELSE IF ~comparePassword(password, user.password) THEN
    /\ users' = [users EXCEPT ![uid] = incrementLoginAttempts(user, now)]
    /\ resp' = Failure("login", arg, wrongPasswordError)
    /\ UNCHANGED <<tokens, issued, held>>
  ELSE
    LET saved == [resetLoginAttempts(user) EXCEPT !.lastLogin = now]
        role == roles[saved.role]
        accessToken == generateAccessToken(
                         [id |-> uid, email |-> saved.email, role |-> role.name,
                          permissions |-> role.permissions], now)
        refreshToken == generateRefreshToken(
                         [id |-> uid, email |-> saved.email, role |-> role.name], now)
    IN
    /\ users' = [users EXCEPT ![uid] = saved]
    /\ IF storeRefreshTokenFails(tokens, refreshToken) THEN
         /\ resp' = Failure("login", arg, internalError("Failed to store refresh token"))
         /\ UNCHANGED <<tokens, issued, held>>
       ELSE
         /\ tokens' = tokens \cup {newRefreshRecord(uid, refreshToken, now)}
         /\ issued' = issued \cup {refreshToken}
         /\ held' = {accessToken}
         /\ resp' = Success("login", arg, "Login successful",
                            [accessToken |-> accessToken, refreshToken |-> refreshToken,
                             role |-> role.name, permissions |-> role.permissions])

LoginWith(inputs) ==
  \E in \in inputs :
    /\ login(in[1], in[2])
    /\ Cardinality(issued') <= MaxIssued
    /\ hist' = HistLogin(in[1], in[2])
    /\ UNCHANGED <<mailer, calls, now, advances, roles, breaker>>

\* any client: right and wrong credentials
Login == LoginWith(LoginInputs)
\* the account holders: each signs in with the account's own credentials
SignIn == LoginWith(OwnCredentials)

(***************************************************************************)
(* The clock.                                                              *)
(***************************************************************************)
Jumps == {1, LockDuration, RefreshRecordTTL}

Advance ==
  \E d \in Jumps :
    /\ advances < MaxAdvance
    /\ now' = now + d
    /\ advances' = advances + 1
    /\ resp' = Quiet("advance")
    /\ UNCHANGED <<users, roles, tokens, issued, held, hist, mailer, calls, breaker>>

(***************************************************************************)
(* Session manager: refreshToken, logout, logoutAll.                       *)
(***************************************************************************)
\* what the service hands back after a successful refresh
refreshResult(uid, user, role, t) ==
  LET newAccessToken == generateAccessToken(
                          [id |-> uid, email |-> user.email, role |-> role.name,
                           permissions |-> role.permissions], t)
  IN [accessToken |-> newAccessToken, role |-> role.name, permissions |-> role.permissions]

\* the store after a successful refresh, were the presented token consumed
storeAfterRefresh_consumed(store, token) ==
  {IF r.token = token THEN [r EXCEPT !.isRevoked = TRUE] ELSE r : r \in store}
\* the store after a successful refresh: the service writes nothing
storeAfterRefresh(store, token) == store

\* refreshes for any user the record names, whatever the account's status
refreshToken_anyStatus(token) ==
  LET v == verifyRefreshToken(tokens, token, now) IN
  IF v.statusCode # 200 THEN
    /\ resp' = Failure("refresh", token, v)
    /\ UNCHANGED <<users, tokens, issued, held>>
  ELSE
    LET uid == token.payload.id
        result == refreshResult(uid, users[uid], roles[users[uid].role], now) IN
    /\ held' = {result.accessToken}
    /\ tokens' = storeAfterRefresh(tokens, token)
    /\ resp' = Success("refresh", token, "Token refreshed successfully", result)
    /\ UNCHANGED <<users, issued>>
refreshToken(token) ==
  LET v == verifyRefreshToken(tokens, token, now) IN
  IF v.statusCode # 200 THEN
    /\ resp' = Failure("refresh", token, v)
    /\ UNCHANGED <<users, tokens, issued, held>>
  ELSE IF ~checkRefreshToken(tokens, token, now) THEN
    /\ resp' = Failure("refresh", token, unauthorized("Invalid refresh token"))
    /\ UNCHANGED <<users, tokens, issued, held>>
  ELSE LET uid == token.payload.id
           user == users[uid] IN
  IF ~user.isActive \/ user.isDeleted THEN
    /\ resp' = Failure("refresh", token, unauthorized("User not found or inactive"))
    /\ UNCHANGED <<users, tokens, issued, held>>
  ELSE
    LET result == refreshResult(uid, user, roles[user.role], now) IN
    /\ held' = {result.accessToken}
    /\ tokens' = storeAfterRefresh(tokens, token)
    /\ resp' = Success("refresh", token, "Token refreshed successfully", result)
    /\ UNCHANGED <<users, issued>>

RefreshToken ==
  \E token \in issued \cup held \cup {ForgedToken} :
    /\ refreshToken(token)
    /\ hist' = HistRepeat("refresh", token)
    /\ UNCHANGED <<mailer, calls, now, advances, roles, breaker>>

logout(token) ==
  /\ tokens' = removeRefreshToken(tokens, token)
  /\ resp' = Success("logout", token, "Logged out successfully", NoData)
  /\ UNCHANGED <<users, issued, held>>

Logout ==
  \E token \in issued \cup held \cup {ForgedToken} :
    /\ logout(token)
    /\ hist' = HistRepeat("logout", token)
    /\ UNCHANGED <<mailer, calls, now, advances, roles, breaker>>

logoutAll(userId) ==
  /\ tokens' = removeAllRefreshTokens(tokens, userId)
  /\ resp' = Success("logoutAll", userId, "Logged out from all devices", NoData)
  /\ UNCHANGED <<users, issued, held>>

LogoutAll ==
  \E userId \in UserIds :
    /\ logoutAll(userId)
    /\ hist' = HistLogoutAll(userId)
    /\ UNCHANGED <<mailer, calls, now, advances, roles, breaker>>

(***************************************************************************)
(* The authenticate middleware: req.user, or the error passed to next().   *)
(***************************************************************************)
\* looks the permissions up in the database
authenticate_fromDatabase(token) ==
  LET v == verifyAccessToken(token, now) IN
  IF v = "TokenExpiredError" THEN Failure("authenticate", token, unauthorized("Token expired"))
  ELSE IF v = "JsonWebTokenError" THEN Failure("authenticate", token, unauthorized("Invalid token"))
  ELSE Success("authenticate", token, "",
               [id |-> token.payload.id, email |-> token.payload.email,
                role |-> token.payload.role,
                permissions |-> roles[users[token.payload.id].role].permissions])
authenticate(token) ==
  LET v == verifyAccessToken(token, now) IN
  IF v = "TokenExpiredError" THEN Failure("authenticate", token, unauthorized("Token expired"))
  ELSE IF v = "JsonWebTokenError" THEN Failure("authenticate", token, unauthorized("Invalid token"))
  ELSE Success("authenticate", token, "",
               [id |-> token.payload.id, email |-> token.payload.email,
                role |-> token.payload.role,
                permissions |-> IF "permissions" \in DOMAIN token.payload
                                THEN token.payload.permissions ELSE {}])

Authenticate ==
  \E token \in issued \cup held \cup {ForgedToken} :
    /\ resp' = authenticate(token)
    /\ UNCHANGED <<mailer, calls, now, advances, users, roles, tokens, issued, held, hist, breaker>>

(***************************************************************************)
(* Role service and user service: what changes a user's permissions and    *)
(* status.                                                                 *)
(***************************************************************************)
assignRole(roleId, userId) ==
  /\ users' = [users EXCEPT ![userId].role = roleId]
  /\ resp' = Success("assignRole", [roleId |-> roleId, userId |-> userId],
                     "Role assigned successfully", NoData)
  /\ UNCHANGED <<roles, tokens, issued, held>>

AssignRole ==
  \E roleId \in DOMAIN roles, userId \in ManagedUsers :
    /\ assignRole(roleId, userId)
    /\ UNCHANGED <<mailer, calls, now, advances, hist, breaker>>

updateRolePermissions(roleId, permissions) ==
  LET arg == [roleId |-> roleId, permissions |-> permissions] IN
  IF roles[roleId].isSystem THEN
    /\ resp' = Failure("updateRolePermissions", arg, badRequest("Cannot update system roles"))
    /\ UNCHANGED <<users, roles, tokens, issued, held>>
  ELSE
    /\ roles' = [roles EXCEPT ![roleId].permissions = permissions]
    /\ resp' = Success("updateRolePermissions", arg, "", NoData)
    /\ UNCHANGED <<users, tokens, issued, held>>

UpdateRolePermissions ==
  \E roleId \in DOMAIN roles, permissions \in PermissionSets :
    /\ updateRolePermissions(roleId, permissions)
    /\ UNCHANGED <<mailer, calls, now, advances, hist, breaker>>

updateUserStatus(userId, isActive, isDeleted) ==
  /\ users' = [users EXCEPT ![userId].isActive = isActive, ![userId].isDeleted = isDeleted]
  /\ resp' = Success("updateUserStatus", [userId |-> userId, isActive |-> isActive, isDeleted |-> isDeleted],
                     "", NoData)
  /\ UNCHANGED <<roles, tokens, issued, held>>

UpdateUserStatus ==
  \E userId \in ManagedUsers, st \in StatusInputs :
    /\ updateUserStatus(userId, st[1], st[2])
    /\ UNCHANGED <<mailer, calls, now, advances, hist, breaker>>

(***************************************************************************)
(* Background purge of expired token records.                              *)
(***************************************************************************)
CleanExpiredTokens ==
  /\ tokens' = cleanExpired(tokens, now)
  /\ resp' = Quiet("cleanExpiredTokens")
  /\ UNCHANGED <<mailer, calls, now, advances, users, roles, issued, held, hist, breaker>>

(***************************************************************************)
(* Ephemeral tokens: password reset and e-mail verification.  The token    *)
(* values live in the user record; crypto.randomBytes gives a value that   *)
(* was never given before.                                                 *)
(***************************************************************************)
randomBytes == mailer.minted + 1

\* emailService.sendEmail: the message is delivered, or the transporter fails
\* and sendEmail throws Error('Failed to send email')
sendEmail(to, kind, token, delivered) ==
  [minted |-> mailer.minted + 1,
   outbox |-> IF delivered THEN mailer.outbox \cup {[to |-> to, kind |-> kind, token |-> token]}
              ELSE mailer.outbox]
sendEmailError == ApiError("Failed to send email", 500)

\* undoes the save when the e-mail could not be sent
afterSendFailure_rolledBack(saved, previous) == previous
\* the user record once sendEmail has thrown: the save before it stands
afterSendFailure(saved, previous) == saved

forgotPassword(email, delivered) ==
  LET uid == findByEmail(email)
      arg == [email |-> email]
  IN
  IF uid = NoUser THEN
    /\ resp' = Success("forgotPassword", arg, "Password reset email sent", NoData)
    /\ UNCHANGED <<users, mailer>>
  ELSE
    LET resetToken == randomBytes
        saved == [users[uid] EXCEPT !.passwordResetToken = resetToken,
                                    !.passwordResetExpires = now + ResetTTL]
    IN
    /\ mailer' = sendEmail(users[uid].email, "reset", resetToken, delivered)
    /\ users' = [users EXCEPT ![uid] = IF delivered THEN saved
                                        ELSE afterSendFailure(saved, users[uid])]
    /\ resp' = IF delivered
               THEN Success("forgotPassword", arg, "Password reset email sent", NoData)
               ELSE Failure("forgotPassword", arg, sendEmailError)

ForgotPasswordWith(emails, deliveries) ==
  \E email \in emails, delivered \in deliveries :
    /\ mailer.minted < MaxMinted
    /\ forgotPassword(email, delivered)
    /\ hist' = HistForgot(email)
    /\ UNCHANGED <<calls, now, advances, roles, tokens, issued, held, breaker>>

ForgotPassword == ForgotPasswordWith(RecoveryEmails, BOOLEAN)
\* the owner of an account asks for a reset and the e-mail arrives
RequestReset == ForgotPasswordWith({"john.doe@example.com"}, {TRUE})
\* the same owner signs in
SignInOwner == LoginWith({<<"john.doe@example.com", "User@123">>})

\* accepts every reset token that was sent to the user and has not run out
\* with the latest one
resetTokenLive_anySent(user, token, t) ==
  /\ \E m \in mailer.outbox : m.to = user.email /\ m.kind = "reset" /\ m.token = token
  /\ user.passwordResetExpires > t
\* accepts the token at the instant it expires
resetTokenLive_inclusive(user, token, t) ==
  user.passwordResetToken = token /\ user.passwordResetExpires >= t
\* User.findOne({passwordResetToken: token, passwordResetExpires: {$gt: Date.now()}})
resetTokenLive(user, token, t) ==
  user.passwordResetToken = token /\ user.passwordResetExpires > t

findByResetToken(token, t) ==
  LET found == {u \in DOMAIN users : resetTokenLive(users[u], token, t)}
  IN IF found = {} THEN NoUser ELSE CHOOSE u \in found : TRUE

\* leaves the token in the record
resetWrite_keepsToken(user, newPassword) ==
  [user EXCEPT !.password = hashPassword(newPassword)]
\* the fields resetPassword sets before user.save()
resetWrite(user, newPassword) ==
  [user EXCEPT !.password = hashPassword(newPassword),
               !.passwordResetToken = NoToken,
               !.passwordResetExpires = NoDate]

\* forgets to log the user out
revokeOnReset_none(store, userId) == store
revokeOnReset(store, userId) == removeAllRefreshTokens(store, userId)

resetPassword(token, newPassword) ==
  LET uid == findByResetToken(token, now)
      arg == [token |-> token, newPassword |-> newPassword]
  IN
  IF uid = NoUser THEN
    /\ resp' = Failure("resetPassword", arg, badRequest("Invalid or expired reset token"))
    /\ UNCHANGED <<users, tokens>>
  ELSE
    /\ users' = [users EXCEPT ![uid] = resetWrite(users[uid], newPassword)]
    /\ tokens' = revokeOnReset(tokens, uid)
    /\ resp' = Success("resetPassword", arg, "Password reset successfully", NoData)

ResetPassword ==
  \E token \in 1..MaxMinted, newPassword \in NewPasswords :
    /\ resetPassword(token, newPassword)
    /\ hist' = HistReset(token)
    /\ UNCHANGED <<mailer, calls, now, advances, roles, issued, held, breaker>>

\* accepts the token at the instant it expires
verificationTokenLive_inclusive(user, token, t) ==
  user.emailVerificationToken = token /\ user.emailVerificationExpires >= t
\* User.findOne({emailVerificationToken: token, emailVerificationExpires: {$gt: Date.now()}})
verificationTokenLive(user, token, t) ==
  user.emailVerificationToken = token /\ user.emailVerificationExpires > t

findByVerificationToken(token, t) ==
  LET found == {u \in DOMAIN users : verificationTokenLive(users[u], token, t)}
  IN IF found = {} THEN NoUser ELSE CHOOSE u \in found : TRUE

verifyEmail(token) ==
  LET uid == findByVerificationToken(token, now)
      arg == [token |-> token]
  IN
  IF uid = NoUser THEN
    /\ resp' = Failure("verifyEmail", arg, badRequest("Invalid or expired verification token"))
    /\ UNCHANGED users
  ELSE
    /\ users' = [users EXCEPT ![uid].isEmailVerified = TRUE,
                              ![uid].emailVerificationToken = NoToken,
                              ![uid].emailVerificationExpires = NoDate]
    /\ resp' = Success("verifyEmail", arg, "Email verified successfully", NoData)

VerifyEmail ==
  \E token \in 1..MaxMinted :
    /\ verifyEmail(token)
    /\ hist' = HistConsume(token)
    /\ UNCHANGED <<mailer, calls, now, advances, roles, tokens, issued, held, breaker>>

resendVerification(email, delivered) ==
  LET uid == findByEmail(email)
      arg == [email |-> email]
  IN
  IF uid = NoUser THEN
    /\ resp' = Failure("resendVerification", arg, notFound("User not found"))
    /\ UNCHANGED <<users, mailer>>
  ELSE IF users[uid].isEmailVerified THEN
    /\ resp' = Failure("resendVerification", arg, badRequest("Email is already verified"))
    /\ UNCHANGED <<users, mailer>>
  ELSE
    LET emailVerificationToken == randomBytes
        saved == [users[uid] EXCEPT !.emailVerificationToken = emailVerificationToken,
                                    !.emailVerificationExpires = now + VerificationTTL]
    IN
    /\ mailer' = sendEmail(users[uid].email, "verification", emailVerificationToken, delivered)
    /\ users' = [users EXCEPT ![uid] = IF delivered THEN saved
                                        ELSE afterSendFailure(saved, users[uid])]
    /\ resp' = IF delivered
               THEN Success("resendVerification", arg, "Verification email sent", NoData)
               ELSE Failure("resendVerification", arg, sendEmailError)

ResendVerification ==
  \E email \in VerificationEmails, delivered \in BOOLEAN :
    /\ mailer.minted < MaxMinted
    /\ resendVerification(email, delivered)
    /\ hist' = HistResend(email)
    /\ UNCHANGED <<calls, now, advances, roles, tokens, issued, held, breaker>>

\* Role.findOne({isDefault: true, isActive: true})
defaultRole ==
  LET found == {r \in DOMAIN roles : roles[r].isDefault /\ roles[r].isActive}
  IN IF found = {} THEN NoUser ELSE CHOOSE r \in found : TRUE

\* no unique index on the e-mail column
uniqueEmailViolated_noIndex(email) == FALSE
\* email: {unique: true}: save() of a second record with a stored e-mail, the
\* soft-deleted records included, is rejected
uniqueEmailViolated(email) == \E u \in DOMAIN users : users[u].email = toLowerCase(email)
\* what the error handler makes of the rejected save
duplicateKeyError == conflict("Duplicate field value entered")

register(uid, email, password, delivered) ==
  LET arg == [email |-> email] IN
  IF findByEmail(email) # NoUser THEN
    /\ resp' = Failure("register", arg, conflict("User with this email already exists"))
    /\ UNCHANGED <<users, mailer>>
  ELSE IF defaultRole = NoUser THEN
    /\ resp' = Failure("register", arg, internalError("Default role not found"))
    /\ UNCHANGED <<users, mailer>>
  ELSE IF uniqueEmailViolated(email) THEN
    /\ resp' = Failure("register", arg, duplicateKeyError)
    /\ UNCHANGED <<users, mailer>>
  ELSE
    LET emailVerificationToken == randomBytes
        user == [SeedUser(toLowerCase(email), password, defaultRole) EXCEPT
                   !.isEmailVerified = FALSE,
                   !.emailVerificationToken = emailVerificationToken,
                   !.emailVerificationExpires = now + VerificationTTL]
    IN
    /\ users' = (uid :> user) @@ users
    /\ mailer' = sendEmail(user.email, "verification", emailVerificationToken, delivered)
    /\ resp' = IF delivered THEN Created("register", arg, "User registered successfully", NoData)
               ELSE Failure("register", arg, sendEmailError)

Register ==
  \E uid \in NewUserIds, in \in RegisterInputs, delivered \in BOOLEAN :
    /\ uid \notin DOMAIN users
    /\ mailer.minted < MaxMinted
    /\ register(uid, in[1], in[2], delivered)
    /\ UNCHANGED <<calls, now, advances, roles, tokens, issued, held, hist, breaker>>

\* the clock of the ephemeral tokens: to the second before an expiry, and onto it
EphemeralJumps == {1, ResetTTL - 1, VerificationTTL - 1}

Elapse ==
  \E d \in EphemeralJumps :
    /\ advances < MaxAdvance
    /\ now' = now + d
    /\ advances' = advances + 1
    /\ resp' = Quiet("elapse")
    /\ UNCHANGED <<users, roles, tokens, issued, held, hist, mailer, calls, breaker>>

(***************************************************************************)
(* resetPassword as it runs when requests overlap: each await (findOne,    *)
(* save, removeAllRefreshTokens) is one step and the steps of different    *)
(* calls interleave.                                                       *)
(***************************************************************************)
\* const user = await User.findOne({...}); if (!user) throw badRequest
ResetFind(p) ==
  \E token \in 1..MaxMinted, newPassword \in NewPasswords :
    LET uid == findByResetToken(token, now)
        arg == [token |-> token, newPassword |-> newPassword]
    IN
    /\ calls[p].pc = "idle"
    /\ IF uid = NoUser
       THEN /\ calls' = [calls EXCEPT ![p] = [pc |-> "done", token |-> token,
                                               newPassword |-> newPassword, uid |-> uid,
                                               statusCode |-> 400]]
            /\ resp' = Failure("resetPassword", arg, badRequest("Invalid or expired reset token"))
       ELSE /\ calls' = [calls EXCEPT ![p] = [pc |-> "found", token |-> token,
                                               newPassword |-> newPassword, uid |-> uid,
                                               statusCode |-> 0]]
            /\ resp' = Quiet("resetPassword")
    /\ UNCHANGED <<mailer, now, advances, users, roles, tokens, issued, held, hist, breaker>>

\* user.password = newPassword; the token fields cleared; await user.save()
ResetSave(p) ==
  /\ calls[p].pc = "found"
  /\ users' = [users EXCEPT ![calls[p].uid] = resetWrite(@, calls[p].newPassword)]
  /\ calls' = [calls EXCEPT ![p].pc = "saved"]
  /\ resp' = Quiet("resetPassword")
  /\ UNCHANGED <<mailer, now, advances, roles, tokens, issued, held, hist, breaker>>

\* await tokenService.removeAllRefreshTokens(user._id); return
ResetRevoke(p) ==
  /\ calls[p].pc = "saved"
  /\ tokens' = revokeOnReset(tokens, calls[p].uid)
  /\ calls' = [calls EXCEPT ![p].pc = "done", ![p].statusCode = 200]
  /\ resp' = Success("resetPassword",
                     [token |-> calls[p].token, newPassword |-> calls[p].newPassword],
                     "Password reset successfully", NoData)
  /\ UNCHANGED <<mailer, now, advances, users, roles, issued, held, hist, breaker>>

ResetStep == \E p \in Procs : ResetFind(p) \/ ResetSave(p) \/ ResetRevoke(p)

(***************************************************************************)
(* Password change and account deletion: the auth service (/auth routes)   *)
(* and the user service (/users/me routes).                                *)
(***************************************************************************)
changePassword(userId, currentPassword, newPassword) ==
  LET arg == [userId |-> userId] IN
  IF ~comparePassword(currentPassword, users[userId].password) THEN
    /\ resp' = Failure("changePassword", arg, invalidCredentials("Current password is incorrect"))
    /\ UNCHANGED <<users, tokens>>
  ELSE
    /\ users' = [users EXCEPT ![userId].password = hashPassword(newPassword)]
    /\ tokens' = removeAllRefreshTokens(tokens, userId)
    /\ resp' = Success("changePassword", arg, "Password changed successfully", NoData)

ChangePassword ==
  \E userId \in ManagedUsers, currentPassword \in CurrentPasswords, newPassword \in NewPasswords :
    /\ changePassword(userId, currentPassword, newPassword)
    /\ UNCHANGED <<mailer, calls, now, advances, roles, issued, held, hist, breaker>>

deleteAccount(userId, password) ==
  LET arg == [userId |-> userId] IN
  IF ~comparePassword(password, users[userId].password) THEN
    /\ resp' = Failure("deleteAccount", arg, invalidCredentials("Password is incorrect"))
    /\ UNCHANGED <<users, tokens>>
  ELSE
    /\ users' = [users EXCEPT ![userId].isDeleted = TRUE, ![userId].isActive = FALSE]
    /\ tokens' = removeAllRefreshTokens(tokens, userId)
    /\ resp' = Success("deleteAccount", arg, "Account deleted successfully", NoData)

DeleteAccount ==
  \E userId \in ManagedUsers, password \in CurrentPasswords :
    /\ deleteAccount(userId, password)
    /\ UNCHANGED <<mailer, calls, now, advances, roles, issued, held, hist, breaker>>

\* userService.changePassword behind PUT /users/me/change-password; the
\* controller hands ApiResponse.success the text as data, so the message is
\* the default one
changeMyPassword(userId, currentPassword, newPassword) ==
  LET arg == [userId |-> userId] IN
  IF ~comparePassword(currentPassword, users[userId].password) THEN
    /\ resp' = Failure("changeMyPassword", arg, badRequest("Current password is incorrect"))
    /\ UNCHANGED <<users, tokens>>
  ELSE
    /\ users' = [users EXCEPT ![userId].password = hashOnSave(hashPassword(newPassword))]
    /\ resp' = Success("changeMyPassword", arg, "Operation successful",
                       "Password changed successfully")
    /\ UNCHANGED tokens

ChangeMyPassword ==
  \E userId \in ManagedUsers, currentPassword \in CurrentPasswords, newPassword \in NewPasswords :
    /\ changeMyPassword(userId, currentPassword, newPassword)
    /\ UNCHANGED <<mailer, calls, now, advances, roles, issued, held, hist, breaker>>

\* userService.deleteUser behind DELETE /users/me; the controller asks for a
\* password in the body and does not compare it
deleteMyAccount(userId, password) ==
  LET arg == [userId |-> userId] IN
  IF users[userId].isSystem THEN
    /\ resp' = Failure("deleteMyAccount", arg, badRequest("Cannot delete system users"))
    /\ UNCHANGED <<users, tokens>>
  ELSE
    /\ users' = [users EXCEPT ![userId].isDeleted = TRUE, ![userId].isActive = FALSE]
    /\ resp' = Success("deleteMyAccount", arg, "Operation successful",
                       "Account deleted successfully")
    /\ UNCHANGED tokens

DeleteMyAccount ==
  \E userId \in ManagedUsers, password \in CurrentPasswords :
    /\ deleteMyAccount(userId, password)
    /\ UNCHANGED <<mailer, calls, now, advances, roles, issued, held, hist, breaker>>

(***************************************************************************)
(* The validity tests of the two token models, applied to sample stores.   *)
(***************************************************************************)
\* tokenSchema.methods.isExpired (MongoDB)
isExpired(record, t) == record.expiresAt < t
\* Token.isExpired, Token.isValid (PostgreSQL)
isExpiredPg(record, t) == t > record.expiresAt
isValid(record, t) == ~record.isRevoked /\ ~isExpiredPg(record, t)

SampleRecords ==
  [userId : {"u1"}, token : {"t1", "t2"}, type : {"refresh", "reset"},
   isRevoked : BOOLEAN, expiresAt : {1, 2}]
\* the token value is unique in the store
SampleStores ==
  {{}} \cup {{r} : r \in SampleRecords}
       \cup {{r, q} : r \in {x \in SampleRecords : x.token = "t1"},
                      q \in {x \in SampleRecords : x.token = "t2"}}

InitValidity ==
  /\ now \in 0..3
  /\ tokens \in SampleStores
  /\ advances = 0
  /\ users = [u \in UserIds |->
                IF u = "u1" THEN SeedUser("admin@example.com", "Admin@123", "admin")
                ELSE SeedUser("john.doe@example.com", "User@123", "user")]
  /\ roles = [r \in RoleIds |-> SeedRole(r)]
  /\ issued = {}
  /\ held = {}
  /\ resp = Quiet("init")
  /\ hist = HistInit
  /\ mailer = [minted |-> 0, outbox |-> {}]
  /\ calls = [p \in Procs |-> Idle]
  /\ breaker = BreakerInit

FindValidToken ==
  \E token \in {"t1", "t2"}, type \in {"refresh", "reset"} :
    /\ resp' = Success("findValidToken", [token |-> token, type |-> type], "",
                       [found |-> findValidToken(tokens, token, type, now) # {}])
    /\ UNCHANGED <<now, advances, users, roles, tokens, issued, held, hist, mailer, calls, breaker>>

IsValid ==
  \E record \in tokens :
    /\ resp' = Success("isValid", record, "",
                       [valid |-> isValid(record, now), expired |-> isExpiredPg(record, now)])
    /\ UNCHANGED <<now, advances, users, roles, tokens, issued, held, hist, mailer, calls, breaker>>

IsExpired ==
  \E record \in tokens :
    /\ resp' = Success("isExpired", record, "", [expired |-> isExpired(record, now)])
    /\ UNCHANGED <<now, advances, users, roles, tokens, issued, held, hist, mailer, calls, breaker>>

(***************************************************************************)
(* Role service (role.service.js) over the MongoDB role model: createRole, *)
(* updateRole, deleteRole and the permission operations.  Every save()     *)
(* runs the pre('save') hooks of the model and meets the unique index on   *)
(* name.                                                                   *)
(***************************************************************************)
\* name.toLowerCase().replace(/\s+/g, '-') over the role names of the model
normalizeName(name) ==
  CASE name = "Moderator" -> "moderator"
    [] name = "Content Editor" -> "content-editor"
    [] OTHER -> name

\* Role.findOne({name, isDeleted: false, _id: {$ne: roleId}})
findRoleByName(name, exceptId) ==
  {r \in DOMAIN roles : r # exceptId /\ roles[r].name = name /\ ~roles[r].isDeleted}

\* the unique index on name: it covers the soft-deleted documents too
duplicateName(name, exceptId) ==
  \E r \in DOMAIN roles : r # exceptId /\ roles[r].name = name

\* the three pre('save') hooks: the document as it is written
preSave(original, role) ==
  IF role.name # original.name THEN [role EXCEPT !.name = normalizeName(@)] ELSE role

\* the fields a save() of a document that is not new has modified
modifiedPaths(original, role) == {f \in DOMAIN role : role[f] # original[f]}

\* the hooks that refuse the write: a system role deleted, or a system role
\* with a modified field other than description and isActive
preSaveRejects(original, role) ==
  \/ role.isDeleted /\ ~original.isDeleted /\ role.isSystem
  \/ /\ role.isSystem
     /\ modifiedPaths(original, role) \ {"description", "isActive", "updatedAt"} # {}

\* new Role(roleData): the schema defaults fill what roleData leaves out
newRole(roleData) ==
  [name |-> roleData.name,
   description |-> IF "description" \in DOMAIN roleData THEN roleData.description
                   ELSE NoDescription,
   permissions |-> roleData.permissions,
   isDefault |-> IF "isDefault" \in DOMAIN roleData THEN roleData.isDefault ELSE FALSE,
   isSystem |-> IF "isSystem" \in DOMAIN roleData THEN roleData.isSystem ELSE FALSE,
   isActive |-> IF "isActive" \in DOMAIN roleData THEN roleData.isActive ELSE TRUE,
   isDeleted |-> FALSE]

createRole(roleId, roleData) ==
  IF findRoleByName(roleData.name, roleId) # {} THEN
    /\ resp' = Failure("createRole", roleData, badRequest("Role with this name already exists"))
    /\ UNCHANGED <<users, roles, tokens, issued, held>>
  ELSE LET role == [newRole(roleData) EXCEPT !.name = normalizeName(@)] IN
  IF duplicateName(role.name, roleId) THEN
    /\ resp' = Failure("createRole", roleData, internalError("Failed to create role"))
    /\ UNCHANGED <<users, roles, tokens, issued, held>>
  ELSE
    /\ roles' = (roleId :> role) @@ roles
    /\ resp' = Created("createRole", roleData, "", [role |-> roleId])
    /\ UNCHANGED <<users, tokens, issued, held>>

CreateRole ==
  \E roleId \in NewRoleIds \ DOMAIN roles, roleData \in RoleDataInputs :
    /\ createRole(roleId, roleData)
    /\ UNCHANGED <<mailer, calls, now, advances, hist, breaker>>

\* Object.keys(updateData).forEach: a key is copied when the document has a
\* value for it
applyUpdate(role, updateData) ==
  [f \in DOMAIN role |->
     IF f \in DOMAIN updateData /\ ~(f = "description" /\ role.description = NoDescription)
     THEN updateData[f] ELSE role[f]]

updateRole(roleId, updateData) ==
  LET arg == [roleId |-> roleId, updateData |-> updateData]
      role == roles[roleId]
  IN
  IF role.isSystem THEN
    /\ resp' = Failure("updateRole", arg, badRequest("Cannot update system roles"))
    /\ UNCHANGED <<users, roles, tokens, issued, held>>
  ELSE IF /\ "name" \in DOMAIN updateData
          /\ updateData.name # role.name
          /\ findRoleByName(updateData.name, roleId) # {} THEN
    /\ resp' = Failure("updateRole", arg, badRequest("Role with this name already exists"))
    /\ UNCHANGED <<users, roles, tokens, issued, held>>
  ELSE LET changed == applyUpdate(role, updateData)
           saved == preSave(role, changed) IN
  IF preSaveRejects(role, changed) \/ duplicateName(saved.name, roleId) THEN
    /\ resp' = Failure("updateRole", arg, internalError("Failed to update role"))
    /\ UNCHANGED <<users, roles, tokens, issued, held>>
  ELSE
    /\ roles' = [roles EXCEPT ![roleId] = saved]
    /\ resp' = Success("updateRole", arg, "", [role |-> roleId])
    /\ UNCHANGED <<users, tokens, issued, held>>

UpdateRole ==
  \E roleId \in DOMAIN roles, updateData \in UpdateDataInputs :
    /\ updateRole(roleId, updateData)
    /\ UNCHANGED <<mailer, calls, now, advances, hist, breaker>>

\* User.countDocuments({role: roleId, isDeleted: false})
usersWithRole(roleId) ==
  Cardinality({u \in DOMAIN users : users[u].role = roleId /\ ~users[u].isDeleted})

deleteRole(roleId) ==
  LET role == roles[roleId] IN
  IF role.isSystem THEN
    /\ resp' = Failure("deleteRole", roleId, badRequest("Cannot delete system roles"))
    /\ UNCHANGED <<users, roles, tokens, issued, held>>
  ELSE IF usersWithRole(roleId) > 0 THEN
    /\ resp' = Failure("deleteRole", roleId,
                       badRequest("Cannot delete role that is assigned to users"))
    /\ UNCHANGED <<users, roles, tokens, issued, held>>
  ELSE LET changed == [role EXCEPT !.isDeleted = TRUE, !.isActive = FALSE] IN
  IF preSaveRejects(role, changed) THEN
    /\ resp' = Failure("deleteRole", roleId, internalError("Failed to delete role"))
    /\ UNCHANGED <<users, roles, tokens, issued, held>>
  ELSE
    /\ roles' = [roles EXCEPT ![roleId] = preSave(role, changed)]
    /\ resp' = Success("deleteRole", roleId, "Role deleted successfully", NoData)
    /\ UNCHANGED <<users, tokens, issued, held>>

DeleteRole ==
  \E roleId \in DOMAIN roles :
    /\ deleteRole(roleId)
    /\ UNCHANGED <<mailer, calls, now, advances, hist, breaker>>

\* adds to a system role as to any other
addRolePermissions_unguarded(roleId, permissions) ==
  /\ roles' = [roles EXCEPT ![roleId].permissions = @ \cup permissions]
  /\ resp' = Success("addRolePermissions", [roleId |-> roleId, permissions |-> permissions],
                     "", [role |-> roleId])
  /\ UNCHANGED <<users, tokens, issued, held>>
addRolePermissions(roleId, permissions) ==
  LET arg == [roleId |-> roleId, permissions |-> permissions]
      role == roles[roleId]
  IN
  IF role.isSystem THEN
    /\ resp' = Failure("addRolePermissions", arg, badRequest("Cannot update system roles"))
    /\ UNCHANGED <<users, roles, tokens, issued, held>>
  ELSE
    /\ roles' = [roles EXCEPT ![roleId].permissions = @ \cup permissions]
    /\ resp' = Success("addRolePermissions", arg, "", [role |-> roleId])
    /\ UNCHANGED <<users, tokens, issued, held>>

AddRolePermissions ==
  \E roleId \in DOMAIN roles, permissions \in PermissionChanges :
    /\ addRolePermissions(roleId, permissions)
    /\ UNCHANGED <<mailer, calls, now, advances, hist, breaker>>

removeRolePermissions(roleId, permissions) ==
  LET arg == [roleId |-> roleId, permissions |-> permissions]
      role == roles[roleId]
  IN
  IF role.isSystem THEN
    /\ resp' = Failure("removeRolePermissions", arg, badRequest("Cannot update system roles"))
    /\ UNCHANGED <<users, roles, tokens, issued, held>>
  ELSE
    /\ roles' = [roles EXCEPT ![roleId].permissions = @ \ permissions]
    /\ resp' = Success("removeRolePermissions", arg, "", [role |-> roleId])
    /\ UNCHANGED <<users, tokens, issued, held>>

RemoveRolePermissions ==
  \E roleId \in DOMAIN roles, permissions \in PermissionChanges :
    /\ removeRolePermissions(roleId, permissions)
    /\ UNCHANGED <<mailer, calls, now, advances, hist, breaker>>

(***************************************************************************)
(* Permission checks of the role models: the instance methods of the       *)
(* MongoDB model and of the PostgreSQL model, asked about roles in the     *)
(* states the role service can leave them in.                              *)
(***************************************************************************)
Wildcard == "admin:all"

\* roleSchema.methods.hasPermission (MongoDB)
hasPermission(role, permission) ==
  IF ~role.isActive \/ role.isDeleted THEN FALSE
  ELSE IF Wildcard \in role.permissions THEN TRUE
  ELSE permission \in role.permissions
\* roleSchema.methods.hasAnyPermission (MongoDB)
hasAnyPermission(role, permissions) ==
  IF ~role.isActive \/ role.isDeleted THEN FALSE
  ELSE IF Wildcard \in role.permissions THEN TRUE
  ELSE \E permission \in permissions : permission \in role.permissions
\* roleSchema.methods.hasAllPermissions (MongoDB)
hasAllPermissions(role, permissions) ==
  IF ~role.isActive \/ role.isDeleted THEN FALSE
  ELSE IF Wildcard \in role.permissions THEN TRUE
  ELSE \A permission \in permissions : permission \in role.permissions

\* Role.hasPermission / hasAnyPermission / hasAllPermissions (PostgreSQL)
hasPermissionPg(role, permission) ==
  permission \in role.permissions \/ Wildcard \in role.permissions
hasAnyPermissionPg(role, permissions) ==
  \E permission \in permissions : hasPermissionPg(role, permission)
hasAllPermissionsPg(role, permissions) ==
  \A permission \in permissions : hasPermissionPg(role, permission)

\* the permission sets a role can have been given
SamplePermissionSets ==
  {{Wildcard}, {"user:read"}, {"user:read", "content:read"}, {Wildcard, "user:read"}}
\* the permissions and the permission lists the checks are asked about
CheckedPermissions == {"user:read", "content:read", "admin:users"}
CheckedLists == {{}, {"user:read"}, {"user:read", "content:read"}, {"admin:users", "user:read"}}

\* the seeded database after the administrator has set the permissions of the
\* moderator role, deactivated it or deleted it
InitGrants ==
  /\ now = 0
  /\ advances = 0
  /\ users = [u \in UserIds |->
                IF u = "u1" THEN SeedUser("admin@example.com", "Admin@123", "admin")
                ELSE SeedUser("john.doe@example.com", "User@123", "user")]
  /\ \E permissions \in SamplePermissionSets, isActive \in BOOLEAN, isDeleted \in BOOLEAN :
       roles = [r \in RoleIds |->
                  IF r = "moderator"
                  THEN [SeedRole(r) EXCEPT !.permissions = permissions,
                                           !.isActive = isActive, !.isDeleted = isDeleted]
                  ELSE SeedRole(r)]
  /\ tokens = {}
  /\ issued = {}
  /\ held = {}
  /\ resp = Quiet("init")
  /\ hist = HistInit
  /\ mailer = [minted |-> 0, outbox |-> {}]
  /\ calls = [p \in Procs |-> Idle]
  /\ breaker = BreakerInit

\* the answer of a check
Granted(op, roleId, asked, granted) ==
  Success(op, [roleId |-> roleId, asked |-> asked], "", [granted |-> granted])

HasPermission ==
  \E r \in DOMAIN roles, permission \in CheckedPermissions :
    /\ resp' = Granted("hasPermission", r, permission, hasPermission(roles[r], permission))
    /\ UNCHANGED <<now, advances, users, roles, tokens, issued, held, hist, mailer, calls, breaker>>

HasAnyPermission ==
  \E r \in DOMAIN roles, permissions \in CheckedLists :
    /\ resp' = Granted("hasAnyPermission", r, permissions, hasAnyPermission(roles[r], permissions))
    /\ UNCHANGED <<now, advances, users, roles, tokens, issued, held, hist, mailer, calls, breaker>>

HasAllPermissions ==
  \E r \in DOMAIN roles, permissions \in CheckedLists :
    /\ resp' = Granted("hasAllPermissions", r, permissions, hasAllPermissions(roles[r], permissions))
    /\ UNCHANGED <<now, advances, users, roles, tokens, issued, held, hist, mailer, calls, breaker>>

HasPermissionPg ==
  \E r \in DOMAIN roles, permission \in CheckedPermissions :
    /\ resp' = Granted("hasPermissionPg", r, permission, hasPermissionPg(roles[r], permission))
    /\ UNCHANGED <<now, advances, users, roles, tokens, issued, held, hist, mailer, calls, breaker>>

HasAnyPermissionPg ==
  \E r \in DOMAIN roles, permissions \in CheckedLists :
    /\ resp' = Granted("hasAnyPermissionPg", r, permissions,
                       hasAnyPermissionPg(roles[r], permissions))
    /\ UNCHANGED <<now, advances, users, roles, tokens, issued, held, hist, mailer, calls, breaker>>

HasAllPermissionsPg ==
  \E r \in DOMAIN roles, permissions \in CheckedLists :
    /\ resp' = Granted("hasAllPermissionsPg", r, permissions,
                       hasAllPermissionsPg(roles[r], permissions))
    /\ UNCHANGED <<now, advances, users, roles, tokens, issued, held, hist, mailer, calls, breaker>>

(***************************************************************************)
(* Access control middleware (middleware/auth.js) and the routes of the    *)
(* user administration: a route is its chain of middleware followed by the *)
(* controller, and the first error passed to next() is the answer.         *)
(***************************************************************************)
\* authenticateRefresh: req.user, or the error passed to next()
authenticateRefresh(token) ==
  LET v == verifyJWTRefreshToken(token, now) IN
  IF v = "TokenExpiredError"
  THEN Failure("authenticateRefresh", token, unauthorized("Refresh token expired"))
  ELSE IF v = "JsonWebTokenError"
  THEN Failure("authenticateRefresh", token, unauthorized("Invalid refresh token"))
  ELSE Success("authenticateRefresh", token, "",
               [id |-> token.payload.id, email |-> token.payload.email,
                role |-> token.payload.role])

AuthenticateRefresh ==
  \E token \in issued \cup held \cup {ForgedToken} :
    /\ resp' = authenticateRefresh(token)
    /\ UNCHANGED <<mailer, calls, now, advances, users, roles, tokens, issued, held, hist, breaker>>

\* requireRole(...allowed): "ok" or the error passed to next()
requireRole(reqUser, allowed) ==
  IF reqUser = NoData THEN unauthorized("Authentication required")
  ELSE IF reqUser.role \notin allowed THEN forbidden("Insufficient permissions")
  ELSE ApiError("ok", 200)

\* requirePermission(...permissions): "ok" or the error passed to next()
requirePermission(reqUser, permissions) ==
  IF reqUser = NoData THEN unauthorized("Authentication required")
  ELSE IF ~(\A permission \in permissions : permission \in reqUser.permissions)
  THEN forbidden("Insufficient permissions")
  ELSE ApiError("ok", 200)

\* the permission lists a route can be guarded with
RequiredPermissions == {{"user:read"}, {"admin:users"}, {"user:read", "content:publish"}}
\* the tokens a client sends as its access token
PresentedTokens == held \cup {ForgedToken}

\* a route guarded by authenticate and requirePermission(...permissions)
RequirePermission ==
  \E token \in PresentedTokens, permissions \in RequiredPermissions :
    LET arg == [token |-> token, permissions |-> permissions]
        req == authenticate(token) IN
    /\ resp' = IF req.statusCode # 200 THEN Failure("requirePermission", arg, req)
               ELSE LET gate == requirePermission(req.data, permissions) IN
                    IF gate.statusCode # 200 THEN Failure("requirePermission", arg, gate)
                    ELSE Success("requirePermission", arg, "", NoData)
    /\ UNCHANGED <<mailer, calls, now, advances, users, roles, tokens, issued, held, hist, breaker>>

\* the controllers documented as admin only
AdminOperations == {"getAllUsers", "getUserById", "updateUserStatus"}

\* getAllUsers / getUserById / updateUserStatus of the controller, reached
\* by a request that came through the middleware of its route
adminController(op, arg, userId, status) ==
  /\ users' = IF op = "updateUserStatus"
              THEN [users EXCEPT ![userId].isActive = status[1],
                                 ![userId].isDeleted = status[2]]
              ELSE users
  /\ resp' = Success(op, arg,
                     IF op = "getAllUsers" THEN "Users retrieved successfully"
                     ELSE IF op = "getUserById" THEN "User retrieved successfully"
                     ELSE "User status updated successfully",
                     [userId |-> userId])

\* GET /auth/users, GET /auth/users/:id, PUT /auth/users/:id/status:
\* authenticate, then the controller
AuthUsersRoute ==
  \E token \in PresentedTokens, op \in AdminOperations,
     userId \in ManagedUsers, status \in StatusInputs :
    LET arg == [route |-> "/auth/users", token |-> token, userId |-> userId, status |-> status]
        req == authenticate(token) IN
    /\ IF req.statusCode # 200
       THEN resp' = Failure(op, arg, req) /\ UNCHANGED users
       ELSE adminController(op, arg, userId, status)
    /\ UNCHANGED <<mailer, calls, now, advances, roles, tokens, issued, held, hist, breaker>>

\* GET /users, GET /users/:id, PUT /users/:id/status: authenticate,
\* requireRole('admin'), then the controller
UsersRoute ==
  \E token \in PresentedTokens, op \in AdminOperations,
     userId \in ManagedUsers, status \in StatusInputs :
    LET arg == [route |-> "/users", token |-> token, userId |-> userId, status |-> status]
        req == authenticate(token) IN
    /\ IF req.statusCode # 200
       THEN resp' = Failure(op, arg, req) /\ UNCHANGED users
       ELSE LET gate == requireRole(req.data, {"admin"}) IN
            IF gate.statusCode # 200
            THEN resp' = Failure(op, arg, gate) /\ UNCHANGED users
            ELSE adminController(op, arg, userId, status)
    /\ UNCHANGED <<mailer, calls, now, advances, roles, tokens, issued, held, hist, breaker>>

(***************************************************************************)
(* Overlapping login calls for the same account: login is an async         *)
(* function, each await (findByEmail, comparePassword, the counter update, *)
(* the reset, the writes of a successful login) is one step, and the steps *)
(* of different calls interleave.  A call works on the user document its   *)
(* own findByEmail returned.                                               *)
(***************************************************************************)
\* the credentials of the overlapping calls: a wrong password and the right
\* one for the same account, and an e-mail nobody registered
RaceLogins ==
  {<<"john.doe@example.com", "Admin@123">>, <<"john.doe@example.com", "User@123">>,
   <<"nobody@example.com", "User@123">>}

\* this.update(updates): the stored record after a call that holds document
\* user has run incrementLoginAttempts
updateLoginAttempts(stored, user, t) ==
  [stored EXCEPT !.loginAttempts = incrementLoginAttempts(user, t).loginAttempts,
                 !.lockUntil = IF user.loginAttempts + 1 >= MaxLoginAttempts
                               THEN incrementLoginAttempts(user, t).lockUntil ELSE @]

\* const user = await User.findByEmail(email); the checks before the password
LoginFind(p) ==
  \E in \in RaceLogins :
    LET arg == [email |-> in[1], password |-> in[2]]
        uid == findByEmail(in[1])
    IN
    /\ calls[p].pc = "idle"
    /\ IF uid = NoUser THEN
         /\ resp' = Failure("login", arg, userNotFoundError)
         /\ UNCHANGED calls
       ELSE IF isLocked(users[uid], now) THEN
         /\ resp' = Failure("login", arg, accountLockedError)
         /\ UNCHANGED calls
       ELSE IF ~users[uid].isActive \/ users[uid].isDeleted THEN
         /\ resp' = Failure("login", arg, unauthorized("Account is deactivated or deleted"))
         /\ UNCHANGED calls
       ELSE
         /\ calls' = [calls EXCEPT ![p] = [pc |-> "found", email |-> in[1], password |-> in[2],
                                           uid |-> uid, user |-> users[uid]]]
         /\ resp' = Quiet("login")
    /\ UNCHANGED <<mailer, now, advances, users, roles, tokens, issued, held, hist, breaker>>

\* const isPasswordValid = await user.comparePassword(password)
LoginCompare(p) ==
  /\ calls[p].pc = "found"
  /\ calls' = [calls EXCEPT ![p].pc = IF comparePassword(calls[p].password, calls[p].user.password)
                                      THEN "matched" ELSE "failed"]
  /\ resp' = Quiet("login")
  /\ UNCHANGED <<mailer, now, advances, users, roles, tokens, issued, held, hist, breaker>>

\* await user.incLoginAttempts(); throw invalidCredentials
LoginIncrement(p) ==
  /\ calls[p].pc = "failed"
  /\ users' = [users EXCEPT ![calls[p].uid] = updateLoginAttempts(@, calls[p].user, now)]
  /\ calls' = [calls EXCEPT ![p] = Idle]
  /\ resp' = Failure("login", [email |-> calls[p].email, password |-> calls[p].password],
                     wrongPasswordError)
  /\ UNCHANGED <<mailer, now, advances, roles, tokens, issued, held, hist, breaker>>

\* await user.resetLoginAttempts()
LoginReset(p) ==
  /\ calls[p].pc = "matched"
  /\ users' = [users EXCEPT ![calls[p].uid].loginAttempts = 0, ![calls[p].uid].lockUntil = NoDate]
  /\ calls' = [calls EXCEPT ![p].pc = "reset"]
  /\ resp' = Quiet("login")
  /\ UNCHANGED <<mailer, now, advances, roles, tokens, issued, held, hist, breaker>>

\* user.lastLogin = new Date(); await user.save(); the tokens are signed,
\* the refresh token is stored, the call returns
LoginIssue(p) ==
  LET uid == calls[p].uid
      arg == [email |-> calls[p].email, password |-> calls[p].password]
      role == roles[calls[p].user.role]
      newAccess == generateAccessToken(
                       [id |-> uid, email |-> calls[p].user.email, role |-> role.name,
                        permissions |-> role.permissions], now)
      newRefresh == generateRefreshToken(
                       [id |-> uid, email |-> calls[p].user.email, role |-> role.name], now)
  IN
  /\ calls[p].pc = "reset"
  /\ users' = [users EXCEPT ![uid].lastLogin = now]
  /\ calls' = [calls EXCEPT ![p] = Idle]
  /\ IF storeRefreshTokenFails(tokens, newRefresh) THEN
       /\ resp' = Failure("login", arg, internalError("Failed to store refresh token"))
       /\ UNCHANGED <<tokens, issued, held>>
     ELSE
       /\ tokens' = tokens \cup {newRefreshRecord(uid, newRefresh, now)}
       /\ issued' = issued \cup {newRefresh}
       /\ held' = {newAccess}
       /\ resp' = Success("login", arg, "Login successful",
                          [accessToken |-> newAccess, refreshToken |-> newRefresh,
                           role |-> role.name, permissions |-> role.permissions])
  /\ Cardinality(issued') <= MaxIssued
  /\ UNCHANGED <<mailer, now, advances, roles, hist, breaker>>

LoginStep ==
  \E p \in Procs :
    LoginFind(p) \/ LoginCompare(p) \/ LoginIncrement(p) \/ LoginReset(p) \/ LoginIssue(p)

(***************************************************************************)
(* register as it runs when requests overlap: each await (findByEmail,     *)
(* Role.findOne, save, sendVerificationEmail) is one step.                 *)
(***************************************************************************)
\* the bodies of the overlapping registrations: a new address, and the
\* address of a seeded account
RaceRegistrations ==
  {<<"jane.roe@example.com", "User@123">>, <<"John.Doe@example.com", "User@123">>}
\* the ids the database gives to the users these registrations create
RaceUserIds == {"u3", "u4"}

\* const existingUser = await User.findByEmail(email); if (existingUser) throw conflict
RegisterFind(p) ==
  \E in \in RaceRegistrations :
    /\ calls[p].pc = "idle"
    /\ IF findByEmail(in[1]) # NoUser THEN
         /\ resp' = Failure("register", [email |-> in[1]],
                            conflict("User with this email already exists"))
         /\ UNCHANGED calls
       ELSE
         /\ calls' = [calls EXCEPT ![p] = [pc |-> "absent", email |-> in[1], password |-> in[2]]]
         /\ resp' = Quiet("register")
    /\ UNCHANGED <<mailer, now, advances, users, roles, tokens, issued, held, hist, breaker>>

\* const defaultRole = await Role.findOne({isDefault: true, isActive: true});
\* the verification token is drawn and the document is built
RegisterRole(p) ==
  /\ calls[p].pc = "absent"
  /\ IF defaultRole = NoUser THEN
       /\ resp' = Failure("register", [email |-> calls[p].email],
                          internalError("Default role not found"))
       /\ calls' = [calls EXCEPT ![p] = Idle]
       /\ UNCHANGED mailer
     ELSE
       /\ mailer.minted < MaxMinted
       /\ mailer' = [mailer EXCEPT !.minted = @ + 1]
       /\ calls' = [calls EXCEPT ![p] =
                      [pc |-> "built", email |-> calls[p].email,
                       user |-> [SeedUser(toLowerCase(calls[p].email), calls[p].password, defaultRole)
                                   EXCEPT !.isEmailVerified = FALSE,
                                          !.emailVerificationToken = randomBytes,
                                          !.emailVerificationExpires = now + VerificationTTL]]]
       /\ resp' = Quiet("register")
  /\ UNCHANGED <<now, advances, users, roles, tokens, issued, held, hist, breaker>>

\* await user.save(): the record is inserted unless the unique index rejects it
RegisterSave(p) ==
  /\ calls[p].pc = "built"
  /\ IF uniqueEmailViolated(calls[p].email) THEN
       /\ resp' = Failure("register", [email |-> calls[p].email], duplicateKeyError)
       /\ calls' = [calls EXCEPT ![p] = Idle]
       /\ UNCHANGED users
     ELSE
       /\ RaceUserIds \ DOMAIN users # {}
       /\ users' = ((CHOOSE u \in RaceUserIds : u \notin DOMAIN users) :> calls[p].user) @@ users
       /\ calls' = [calls EXCEPT ![p].pc = "saved"]
       /\ resp' = Quiet("register")
  /\ UNCHANGED <<mailer, now, advances, roles, tokens, issued, held, hist, breaker>>

\* await emailService.sendVerificationEmail(user.email, emailVerificationToken); return
RegisterSend(p) ==
  \E delivered \in BOOLEAN :
    /\ calls[p].pc = "saved"
    /\ mailer' = [mailer EXCEPT !.outbox =
                    IF delivered
                    THEN @ \cup {[to |-> calls[p].user.email, kind |-> "verification",
                                  token |-> calls[p].user.emailVerificationToken]}
                    ELSE @]
    /\ resp' = IF delivered
               THEN Created("register", [email |-> calls[p].email],
                            "User registered successfully", NoData)
               ELSE Failure("register", [email |-> calls[p].email], sendEmailError)
    /\ calls' = [calls EXCEPT ![p] = Idle]
    /\ UNCHANGED <<now, advances, users, roles, tokens, issued, held, hist, breaker>>

RegisterStep ==
  \E p \in Procs : RegisterFind(p) \/ RegisterRole(p) \/ RegisterSave(p) \/ RegisterSend(p)

(***************************************************************************)
(* deleteRole and assignRole as they run when requests overlap: each await *)
(* (findById, countDocuments, save) is one step.                           *)
(***************************************************************************)
\* const role = await Role.findById(roleId); the system-role check
DeleteRoleFind(p) ==
  \E roleId \in DOMAIN roles :
    /\ calls[p].pc = "idle"
    /\ IF roles[roleId].isSystem THEN
         /\ resp' = Failure("deleteRole", roleId, badRequest("Cannot delete system roles"))
         /\ UNCHANGED calls
       ELSE
         /\ calls' = [calls EXCEPT ![p] = [pc |-> "deleting", roleId |-> roleId,
                                           role |-> roles[roleId]]]
         /\ resp' = Quiet("deleteRole")
    /\ UNCHANGED <<mailer, now, advances, users, roles, tokens, issued, held, hist, breaker>>

\* const usersWithRole = await User.countDocuments({role: roleId, isDeleted: false})
DeleteRoleCount(p) ==
  /\ calls[p].pc = "deleting"
  /\ IF usersWithRole(calls[p].roleId) > 0 THEN
       /\ resp' = Failure("deleteRole", calls[p].roleId,
                          badRequest("Cannot delete role that is assigned to users"))
       /\ calls' = [calls EXCEPT ![p] = Idle]
     ELSE
       /\ calls' = [calls EXCEPT ![p].pc = "unreferenced"]
       /\ resp' = Quiet("deleteRole")
  /\ UNCHANGED <<mailer, now, advances, users, roles, tokens, issued, held, hist, breaker>>

\* role.isDeleted = true; role.isActive = false; await role.save()
DeleteRoleSave(p) ==
  LET roleId == calls[p].roleId
      changed == [calls[p].role EXCEPT !.isDeleted = TRUE, !.isActive = FALSE]
  IN
  /\ calls[p].pc = "unreferenced"
  /\ IF preSaveRejects(calls[p].role, changed) THEN
       /\ resp' = Failure("deleteRole", roleId, internalError("Failed to delete role"))
       /\ UNCHANGED roles
     ELSE
       /\ roles' = [roles EXCEPT ![roleId].isDeleted = TRUE, ![roleId].isActive = FALSE]
       /\ resp' = Success("deleteRole", roleId, "Role deleted successfully", NoData)
  /\ calls' = [calls EXCEPT ![p] = Idle]
  /\ UNCHANGED <<mailer, now, advances, users, tokens, issued, held, hist, breaker>>

\* const role = await Role.findById(roleId); const user = await User.findById(userId)
AssignRoleFind(p) ==
  \E roleId \in DOMAIN roles, userId \in ManagedUsers :
    /\ calls[p].pc = "idle"
    /\ calls' = [calls EXCEPT ![p] = [pc |-> "assigning", roleId |-> roleId, userId |-> userId]]
    /\ resp' = Quiet("assignRole")
    /\ UNCHANGED <<mailer, now, advances, users, roles, tokens, issued, held, hist, breaker>>

\* user.role = roleId; await user.save()
AssignRoleSave(p) ==
  /\ calls[p].pc = "assigning"
  /\ assignRole(calls[p].roleId, calls[p].userId)
  /\ calls' = [calls EXCEPT ![p] = Idle]
  /\ UNCHANGED <<mailer, now, advances, hist, breaker>>

RoleRaceStep ==
  \E p \in Procs :
    \/ DeleteRoleFind(p) \/ DeleteRoleCount(p) \/ DeleteRoleSave(p)
    \/ AssignRoleFind(p) \/ AssignRoleSave(p)

(***************************************************************************)
(* createCircuitBreaker(fn): the wrapper it returns.  A call runs up to    *)
(* its await fn(...args) in one step and from the settling of fn to its    *)
(* end in another; calls of different callers overlap at the await.        *)
(***************************************************************************)
breakerOpenError == ApiError("Circuit breaker is OPEN", 500)
\* what fn throws when it fails
fnError == ApiError("fn failed", 500)

\* the closure after the open-state check of a call that is let through
afterOpenCheck(closure, t) ==
  IF closure.state = "OPEN" /\ t - closure.lastFailureTime > BreakerTimeout
  THEN [closure EXCEPT !.state = "HALF_OPEN"] ELSE closure

\* const now = Date.now(); the open-state check; fn(...args) is invoked
BreakerCall(p) ==
  /\ calls[p].pc = "idle"
  /\ IF breaker.state = "OPEN" /\ ~(now - breaker.lastFailureTime > BreakerTimeout) THEN
       /\ resp' = Failure("circuitBreaker", NoData, breakerOpenError)
       /\ UNCHANGED <<calls, breaker>>
     ELSE
       /\ breaker' = afterOpenCheck(breaker, now)
       /\ calls' = [calls EXCEPT ![p] = [pc |-> "invoked", now |-> now,
                                         halfOpened |-> breaker.state = "OPEN"]]
       /\ resp' = Quiet("circuitBreaker")
  /\ UNCHANGED <<mailer, now, advances, users, roles, tokens, issued, held, hist>>

\* fn resolved: reset on success, return result
BreakerReturn(p) ==
  /\ calls[p].pc = "invoked"
  /\ breaker' = IF breaker.state = "HALF_OPEN"
                THEN [breaker EXCEPT !.state = "CLOSED", !.failures = 0]
                ELSE breaker
  /\ calls' = [calls EXCEPT ![p] = Idle]
  /\ resp' = Success("circuitBreaker", NoData, "", NoData)
  /\ UNCHANGED <<mailer, now, advances, users, roles, tokens, issued, held, hist>>

\* fn rejected: failures++; lastFailureTime = now; the threshold; throw error
BreakerThrow(p) ==
  /\ calls[p].pc = "invoked"
  /\ breaker' = [failures |-> breaker.failures + 1,
                 lastFailureTime |-> calls[p].now,
                 state |-> IF breaker.failures + 1 >= FailureThreshold
                           THEN "OPEN" ELSE breaker.state]
  /\ calls' = [calls EXCEPT ![p] = Idle]
  /\ resp' = Failure("circuitBreaker", NoData, fnError)
  /\ UNCHANGED <<mailer, now, advances, users, roles, tokens, issued, held, hist>>

BreakerStep == \E p \in Procs : BreakerCall(p) \/ BreakerReturn(p) \/ BreakerThrow(p)

Next ==
  \/ Login
  \/ RefreshToken
  \/ Logout
  \/ LogoutAll
  \/ Authenticate
  \/ AssignRole
  \/ UpdateRolePermissions
  \/ UpdateUserStatus
  \/ CleanExpiredTokens
  \/ Advance
  \/ Register
  \/ ForgotPassword
  \/ ResetPassword
  \/ ResendVerification
  \/ VerifyEmail
  \/ ChangePassword
  \/ DeleteAccount
  \/ ChangeMyPassword
  \/ DeleteMyAccount
  \/ Elapse
  \/ CreateRole
  \/ UpdateRole
  \/ DeleteRole
  \/ AddRolePermissions
  \/ RemoveRolePermissions
  \/ AuthenticateRefresh
  \/ RequirePermission
  \/ AuthUsersRoute
  \/ UsersRoute

Spec == Init /\ [][Next]_vars

(***************************************************************************)
(* The components of the engine, each with the operations that read or     *)
(* write the state it owns.                                                *)
(***************************************************************************)
NextLockout == Login \/ UpdateUserStatus \/ Advance
SpecLockout == Init /\ [][NextLockout]_vars

NextSession ==
  \/ SignIn
  \/ RefreshToken
  \/ Logout
  \/ LogoutAll
  \/ UpdateUserStatus
  \/ CleanExpiredTokens
  \/ Advance
SpecSession == Init /\ [][NextSession]_vars

NextPermissions ==
  \/ SignIn
  \/ RefreshToken
  \/ Authenticate
  \/ AssignRole
  \/ UpdateRolePermissions
  \/ Advance
SpecPermissions == Init /\ [][NextPermissions]_vars

NextResetRace == ForgotPassword \/ ResetStep \/ Elapse
SpecResetRace == Init /\ [][NextResetRace]_vars

NextRecovery == SignInOwner \/ RequestReset \/ ResetPassword \/ RefreshToken \/ Elapse
SpecRecovery == Init /\ [][NextRecovery]_vars

NextAccount ==
  \/ SignInOwner \/ RefreshToken \/ ChangePassword \/ DeleteAccount
  \/ ChangeMyPassword \/ DeleteMyAccount \/ UpdateUserStatus \/ Advance
SpecAccount == Init /\ [][NextAccount]_vars

NextValidity == FindValidToken \/ IsValid \/ IsExpired
SpecValidity == InitValidity /\ [][NextValidity]_vars

NextRoles ==
  \/ CreateRole \/ UpdateRole
  \/ UpdateRolePermissions \/ AddRolePermissions \/ RemoveRolePermissions
SpecRoles == Init /\ [][NextRoles]_vars

NextRoleDeletion == CreateRole \/ DeleteRole \/ AssignRole \/ UpdateUserStatus
SpecRoleDeletion == Init /\ [][NextRoleDeletion]_vars

NextGrants ==
  \/ HasPermission \/ HasAnyPermission \/ HasAllPermissions
  \/ HasPermissionPg \/ HasAnyPermissionPg \/ HasAllPermissionsPg
SpecGrants == InitGrants /\ [][NextGrants]_vars

NextAccess == SignIn \/ RequirePermission \/ AuthUsersRoute \/ UsersRoute \/ Advance
SpecAccess == Init /\ [][NextAccess]_vars

NextTokenKinds == SignIn \/ RefreshToken \/ Authenticate \/ AuthenticateRefresh \/ Advance
SpecTokenKinds == Init /\ [][NextTokenKinds]_vars

NextLoginRace == LoginStep \/ Advance
SpecLoginRace == Init /\ [][NextLoginRace]_vars

NextRegisterRace == RegisterStep \/ UpdateUserStatus
SpecRegisterRace == Init /\ [][NextRegisterRace]_vars

NextRoleRace == RoleRaceStep \/ RegisterStep \/ CreateRole
SpecRoleRace == Init /\ [][NextRoleRace]_vars

NextDormantRoles == SignInOwner \/ RefreshToken \/ AssignRole \/ UpdateRole \/ DeleteRole
SpecDormantRoles == Init /\ [][NextDormantRoles]_vars

NextBreaker == BreakerStep \/ Advance
SpecBreaker == Init /\ [][NextBreaker]_vars

NextEphemeral ==
  Register \/ ForgotPassword \/ ResetPassword \/ ResendVerification \/ VerifyEmail \/ Elapse
SpecEphemeral == Init /\ [][NextEphemeral]_vars

(***************************************************************************)
(* Lockout guard and login outcomes (properties of SpecLockout).           *)
(***************************************************************************)
LockedOutcome == <<401, "Account is temporarily locked. Please try again later.">>
NothingIssued == tokens' = tokens /\ issued' = issued /\ held' = held

\* C1: once an account has taken 5 wrong-password attempts in a row, every
\* login attempt against it made less than two hours after the fifth one is
\* answered with the account-locked error, right password or not, and
\* issues no token.
C1_LockedAfterFiveFailures ==
  [][\A u \in UserIds :
       (resp'.op = "login" /\ u \in AccountsOf(resp'.arg.email) /\ InWindow(u))
         => (Outcome(resp') = LockedOutcome /\ NothingIssued)]_vars

C1_Witness ==
  /\ resp.op = "login"
  /\ Outcome(resp) = LockedOutcome
  /\ \E u \in AccountsOf(resp.arg.email) :
       hist.streak[u] = MaxLoginAttempts /\ InWindow(u) /\ RightPassword(u, resp.arg.password)

\* C2: for an account whose lock has run out (lockUntil set and in the past),
\* a login attempt with the right password succeeds and leaves the failed-
\* attempt counter at 0 and lockUntil cleared.
C2_UnlockAfterExpiry ==
  [][\A u \in UserIds :
       (/\ resp'.op = "login"
        /\ u \in AccountsOf(resp'.arg.email)
        /\ users[u].isActive
        /\ users[u].lockUntil # NoDate /\ now > users[u].lockUntil
        /\ RightPassword(u, resp'.arg.password))
         => (/\ resp'.statusCode = 200
             /\ users'[u].loginAttempts = 0
             /\ users'[u].lockUntil = NoDate)]_vars

C2_Witness ==
  /\ resp.op = "login"
  /\ resp.statusCode = 200
  /\ \E u \in AccountsOf(resp.arg.email) :
       /\ hist.windowEnd[u] # NoDate /\ now > hist.windowEnd[u]
       /\ users[u].loginAttempts = 0 /\ users[u].lockUntil = NoDate
       /\ users[u].lastLogin = now

\* C3: a login attempt against an account that is locked (lockUntil in the
\* future) leaves the user records (counter, lockUntil, lastLogin) and the
\* stored token records as they were, whatever the password.
C3_LockedLoginChangesNothing ==
  [][\A u \in UserIds :
       (resp'.op = "login" /\ u \in AccountsOf(resp'.arg.email) /\ FieldsLocked(u))
         => (users' = users /\ tokens' = tokens /\ issued' = issued)]_vars

C3_Witness ==
  /\ resp.op = "login"
  /\ Outcome(resp) = LockedOutcome
  /\ tokens # {}
  /\ \E u \in AccountsOf(resp.arg.email) :
       FieldsLocked(u) /\ ~RightPassword(u, resp.arg.password) /\ users[u].lastLogin # NoDate

C5_LoginSucceedsWithRolePermissions ==
  [][\A u \in UserIds :
       (/\ resp'.op = "login"
        /\ u \in AccountsOf(resp'.arg.email)
        /\ users[u].isActive /\ ~FieldsLocked(u)
        /\ RightPassword(u, resp'.arg.password))
         => (/\ resp'.statusCode = 200
             /\ resp'.data.permissions = roles[users[u].role].permissions
             /\ resp'.data.accessToken.payload.permissions = roles[users[u].role].permissions)]_vars

\* C6: an access token authenticates with the permissions it was issued
\* with, whatever has happened to the user's role since; an access token
\* issued by a login or a refresh carries the permission set that the user's
\* role has at that moment.
C6_PermissionsFixedAtIssuance ==
  [][/\ (resp'.op = "authenticate" /\ resp'.statusCode = 200)
          => resp'.data.permissions = resp'.arg.payload.permissions
     /\ (resp'.op \in {"login", "refresh"} /\ resp'.statusCode = 200)
          => LET t == resp'.data.accessToken IN
             /\ t.iat = now
             /\ t.payload.permissions = roles[users[t.payload.id].role].permissions]_vars

\* an old token still answers with the permissions of the role the user has left
C6_Witness ==
  /\ resp.op = "authenticate"
  /\ resp.statusCode = 200
  /\ resp.data.permissions # roles[users[resp.data.id].role].permissions
  /\ "admin:all" \in roles[users[resp.data.id].role].permissions
  /\ resp.data.id = "u2"

(***************************************************************************)
(* Refresh and logout (properties of SpecSession).                         *)
(***************************************************************************)
SignedAsRefresh(t) == t.secret = JwtRefreshSecret /\ now < t.exp
LiveRecord(t) ==
  \E r \in tokens : r.token = t /\ r.type = "refresh" /\ ~r.isRevoked /\ now < r.expiresAt

\* C7: a refresh that issues an access token was given a token with a valid
\* refresh signature for which the store holds a refresh record neither
\* revoked nor expired; with a valid signature and no such record the refresh
\* fails and issues no access token.
C7_RefreshNeedsLiveRecord ==
  [][resp'.op = "refresh" =>
       /\ resp'.statusCode = 200 => (SignedAsRefresh(resp'.arg) /\ LiveRecord(resp'.arg))
       /\ (SignedAsRefresh(resp'.arg) /\ ~LiveRecord(resp'.arg))
            => (resp'.statusCode = 401 /\ resp'.data = NoData /\ held' = held)]_vars

C7_Witness ==
  /\ resp.op = "refresh"
  /\ resp.statusCode = 401
  /\ SignedAsRefresh(resp.arg)
  /\ \E r \in tokens : r.token = resp.arg /\ r.isRevoked /\ now < r.expiresAt

\* C8: once logoutAll(u) has run, no refresh token issued to u before it is
\* ever accepted by refresh again; logoutAll(u) leaves the records of the
\* other users as they are.
C8_LogoutAllRevokesEveryToken ==
  [][/\ (resp'.op = "refresh" /\ resp'.arg \in hist.loggedOutAll) => resp'.statusCode # 200
     /\ resp'.op = "logoutAll"
          => \A r \in tokens : r.userId # resp'.arg => r \in tokens']_vars

\* both tokens of a user with two sessions are refused after logoutAll
C8_Witness ==
  /\ resp.op = "refresh"
  /\ resp.statusCode = 401
  /\ SignedAsRefresh(resp.arg)
  /\ resp.arg \in hist.loggedOutAll
  /\ Cardinality({t \in hist.loggedOutAll : t.payload.id = resp.arg.payload.id}) = 2

C11_RefreshRotates ==
  [][(resp'.op = "refresh" /\ resp'.statusCode = 200) =>
       /\ "refreshToken" \in DOMAIN resp'.data
       /\ verifyRefreshToken(tokens', resp'.arg, now').statusCode # 200]_vars

(***************************************************************************)
(* Ephemeral tokens (properties of SpecEphemeral).                         *)
(***************************************************************************)
\* C13: an ephemeral token is used once: after a resetPassword or a
\* verifyEmail has accepted a token value, every later resetPassword or
\* verifyEmail with that value fails and leaves the user records (password,
\* email-verified flag) as they are.
C13_EphemeralSingleUse ==
  [][(resp'.op \in {"resetPassword", "verifyEmail"} /\ resp'.arg.token \in hist.consumed)
       => (resp'.statusCode = 400 /\ users' = users)]_vars

\* a consumed reset token is refused although its hour has not passed
C13_Witness ==
  /\ resp.op = "resetPassword"
  /\ resp.statusCode = 400
  /\ resp.arg.token \in hist.consumed
  /\ now < ResetTTL

\* C16: forgotPassword answers an e-mail of a registered user and an e-mail
\* of no user alike: same status, same message.
C16_ForgotPasswordUniform ==
  (hist.forgotKnown # NoOutcome /\ hist.forgotUnknown # NoOutcome)
    => hist.forgotKnown = hist.forgotUnknown

\* C17: resendVerification answers an e-mail of a registered user and an
\* e-mail of no user alike, with the same success response.
C17_ResendVerificationUniform ==
  (hist.resendKnown # NoOutcome /\ hist.resendUnknown # NoOutcome)
    => (hist.resendKnown = hist.resendUnknown /\ hist.resendKnown[1] = 200)

\* C18: when sending the e-mail fails in forgotPassword or resendVerification,
\* the token just saved stays in the user record with its expiry, and a
\* stored token that has not expired is accepted by resetPassword or
\* verifyEmail whether or not its e-mail went out.
C18_SendFailureKeepsToken ==
  [][/\ (resp'.op = "forgotPassword" /\ resp'.statusCode = 500)
          => \E u \in AccountsOf(resp'.arg.email) :
               /\ users'[u].passwordResetToken = mailer'.minted
               /\ users'[u].passwordResetExpires = now + 3600
     /\ (resp'.op = "resendVerification" /\ resp'.statusCode = 500)
          => \E u \in AccountsOf(resp'.arg.email) :
               /\ users'[u].emailVerificationToken = mailer'.minted
               /\ users'[u].emailVerificationExpires = now + 86400
     /\ (/\ resp'.op = "resetPassword"
         /\ \E u \in DOMAIN users : /\ users[u].passwordResetToken = resp'.arg.token
                                     /\ now < users[u].passwordResetExpires)
          => resp'.statusCode = 200
     /\ (/\ resp'.op = "verifyEmail"
         /\ \E u \in DOMAIN users : /\ users[u].emailVerificationToken = resp'.arg.token
                                     /\ now < users[u].emailVerificationExpires)
          => resp'.statusCode = 200]_vars

\* a reset token whose e-mail was never delivered has been consumed
C18_Witness ==
  /\ resp.op = "resetPassword"
  /\ resp.statusCode = 200
  /\ resp.arg.token <= mailer.minted
  /\ \A m \in mailer.outbox : m.token # resp.arg.token

\* C19: a reset token is given an expiry 1 hour after it is issued and a
\* verification token 24 hours; resetPassword and verifyEmail accept a token
\* only before its expiry, and at or after the expiry they fail and change
\* neither the user records (password, email-verified flag, stored token) nor
\* the token store.
C19_EphemeralExpiry ==
  [][/\ (resp'.op = "forgotPassword" /\ mailer'.minted # mailer.minted)
          => \E u \in DOMAIN users' :
               /\ users'[u].passwordResetToken = mailer'.minted
               /\ users'[u].passwordResetExpires = now + 3600
     /\ (resp'.op \in {"resendVerification", "register"} /\ mailer'.minted # mailer.minted)
          => \E u \in DOMAIN users' :
               /\ users'[u].emailVerificationToken = mailer'.minted
               /\ users'[u].emailVerificationExpires = now + 86400
     /\ resp'.op = "resetPassword" =>
          /\ resp'.statusCode = 200
               => \E u \in DOMAIN users : /\ users[u].passwordResetToken = resp'.arg.token
                                           /\ now < users[u].passwordResetExpires
          /\ (\E u \in DOMAIN users : /\ users[u].passwordResetToken = resp'.arg.token
                                       /\ now >= users[u].passwordResetExpires)
               => (resp'.statusCode = 400 /\ users' = users /\ tokens' = tokens)
     /\ resp'.op = "verifyEmail" =>
          /\ resp'.statusCode = 200
               => \E u \in DOMAIN users : /\ users[u].emailVerificationToken = resp'.arg.token
                                           /\ now < users[u].emailVerificationExpires
          /\ (\E u \in DOMAIN users : /\ users[u].emailVerificationToken = resp'.arg.token
                                       /\ now >= users[u].emailVerificationExpires)
               => (resp'.statusCode = 400 /\ users' = users /\ tokens' = tokens)]_vars

\* a reset token presented at the very second it expires is refused
C19_Witness ==
  /\ resp.op = "resetPassword"
  /\ resp.statusCode = 400
  /\ \E u \in DOMAIN users : /\ users[u].passwordResetToken = resp.arg.token
                              /\ users[u].passwordResetExpires = now

(***************************************************************************)
(* Overlapping resetPassword calls (property of SpecResetRace).            *)
(***************************************************************************)
\* C12: of the resetPassword calls made with one reset token, however their
\* store reads and writes interleave, one succeeds (and writes the password)
\* and every other one fails with the invalid-token error.
C12_OneResetPerToken ==
  \A token \in 1..MaxMinted :
    LET used == {p \in Procs : calls[p].pc = "done" /\ calls[p].token = token}
        won == {p \in used : calls[p].statusCode = 200}
    IN /\ Cardinality(won) <= 1
       /\ \A p \in used \ won : calls[p].statusCode = 400

(***************************************************************************)
(* Password reset and the sessions of the user (property of SpecRecovery). *)
(***************************************************************************)
\* C14: after a successful password reset of a user, no refresh token that
\* was issued to that user before the reset is accepted by refresh; a reset
\* that fails (unknown or expired token) leaves the token store as it is.
C14_ResetRevokesSessions ==
  [][/\ (resp'.op = "refresh" /\ resp'.arg \in hist.beforeReset) => resp'.statusCode # 200
     /\ (resp'.op = "resetPassword" /\ resp'.statusCode # 200) => tokens' = tokens]_vars

C14_Witness ==
  /\ resp.op = "refresh"
  /\ resp.statusCode = 401
  /\ SignedAsRefresh(resp.arg)
  /\ resp.arg \in hist.beforeReset
  /\ users[resp.arg.payload.id].isActive

(***************************************************************************)
(* Password change and account deletion (property of SpecAccount).         *)
(***************************************************************************)
\* C15: whenever an operation changes a user's password or deletes the
\* user's account (changePassword and deleteAccount of the auth service,
\* changePassword and deleteUser of the user service behind /users/me),
\* every refresh record of that user is revoked when it returns.
C15_ChangeRevokesSessions ==
  [][(/\ resp'.op \in {"changePassword", "deleteAccount", "changeMyPassword", "deleteMyAccount"}
      /\ resp'.statusCode = 200)
       => \A r \in tokens' :
            (r.userId = resp'.arg.userId /\ r.type = "refresh") => r.isRevoked]_vars

(***************************************************************************)
(* Validity of a stored token (property of SpecValidity).                  *)
(***************************************************************************)
\* C20: a stored token is valid exactly when it is not revoked and
\* now < expiresAt, and so not at now = expiresAt: the lookup of the MongoDB
\* model finds a record for (value, kind) exactly when such a record is
\* stored, and isValid of the PostgreSQL model answers the same of a record.
C20_ValidIffLive ==
  [][/\ resp'.op = "findValidToken"
          => (resp'.data.found <=>
                \E r \in tokens : /\ r.token = resp'.arg.token /\ r.type = resp'.arg.type
                                   /\ ~r.isRevoked /\ now < r.expiresAt)
     /\ resp'.op = "isValid"
          => (resp'.data.valid <=> (~resp'.arg.isRevoked /\ now < resp'.arg.expiresAt))]_vars

(***************************************************************************)
(* Role invariants (properties of SpecRoles).                              *)
(***************************************************************************)
\* C21: in every reachable state at most one role that is not deleted has
\* isDefault = true, whatever createRole and updateRole calls were made.
C21_AtMostOneDefaultRole ==
  Cardinality({r \in DOMAIN roles : ~roles[r].isDeleted /\ roles[r].isDefault}) <= 1

\* the operations that would change a role's name or its permission set
ChangesNameOrPermissions(r) ==
  \/ r.op = "updateRole" /\ "name" \in DOMAIN r.arg.updateData
  \/ r.op \in {"updateRolePermissions", "addRolePermissions", "removeRolePermissions"}

\* C22: updateRole with a name, updateRolePermissions, addRolePermissions and
\* removeRolePermissions on a role with isSystem = true are answered with an
\* error and leave the role's name and permission set as they were.
C22_SystemRoleImmutable ==
  [][(ChangesNameOrPermissions(resp') /\ roles[resp'.arg.roleId].isSystem) =>
       /\ resp'.statusCode >= 400
       /\ roles'[resp'.arg.roleId].name = roles[resp'.arg.roleId].name
       /\ roles'[resp'.arg.roleId].permissions = roles[resp'.arg.roleId].permissions]_vars

\* a permission change on a system role that an administrator created was
\* refused
C22_Witness ==
  /\ resp.op = "addRolePermissions"
  /\ resp.statusCode = 400
  /\ resp.arg.roleId \in NewRoleIds
  /\ roles[resp.arg.roleId].isSystem
  /\ ~(resp.arg.permissions \subseteq roles[resp.arg.roleId].permissions)

\* C23: an updateRole of a system role that changes only isActive, or only
\* description, is accepted and applied.
C23_SystemRoleTogglesActive ==
  [][(/\ resp'.op = "updateRole"
      /\ roles[resp'.arg.roleId].isSystem
      /\ DOMAIN resp'.arg.updateData \in {{"isActive"}, {"description"}}) =>
       /\ resp'.statusCode = 200
       /\ \A f \in DOMAIN resp'.arg.updateData :
            roles'[resp'.arg.roleId][f] = resp'.arg.updateData[f]]_vars

(***************************************************************************)
(* Role deletion (properties of SpecRoleDeletion).                         *)
(***************************************************************************)
\* the user records that reference a role, soft-deleted ones included
ReferencedBy(roleId) == {u \in DOMAIN users : users[u].role = roleId}

\* C24: deleteRole(r) is refused and r left unchanged when r is a system
\* role or at least one user record references r, and succeeds otherwise.
C24_DeleteRoleGuarded ==
  [][resp'.op = "deleteRole" =>
       IF roles[resp'.arg].isSystem \/ ReferencedBy(resp'.arg) # {}
       THEN resp'.statusCode >= 400 /\ roles'[resp'.arg] = roles[resp'.arg]
       ELSE resp'.statusCode = 200]_vars

(***************************************************************************)
(* Permission checks (property of SpecGrants).                             *)
(***************************************************************************)
\* p or the wildcard is in the permission set
InSet(permissions, p) == p \in permissions \/ Wildcard \in permissions

\* C25: for every role and permission p, hasPermission(p) is true exactly
\* when p or the wildcard is in the role's permission set; hasAnyPermission(ps)
\* exactly when that holds for some p in ps, hasAllPermissions(ps) exactly
\* when it holds for every p in ps - in the MongoDB model and in the
\* PostgreSQL model.
C25_PermissionChecksExact ==
  [][LET set == roles[resp'.arg.roleId].permissions
         asked == resp'.arg.asked
     IN /\ resp'.op \in {"hasPermission", "hasPermissionPg"}
             => (resp'.data.granted <=> InSet(set, asked))
        /\ resp'.op \in {"hasAnyPermission", "hasAnyPermissionPg"}
             => (resp'.data.granted <=> \E p \in asked : InSet(set, p))
        /\ resp'.op \in {"hasAllPermissions", "hasAllPermissionsPg"}
             => (resp'.data.granted <=> \A p \in asked : InSet(set, p))]_vars

(***************************************************************************)
(* Access control (properties of SpecAccess).                              *)
(***************************************************************************)
\* C26: a request authenticated with an access token whose permission claims
\* contain the wildcard passes every requirePermission check, whichever
\* permissions the check names.
C26_WildcardGrantsAll ==
  [][(/\ resp'.op = "requirePermission"
      /\ authenticate(resp'.arg.token).statusCode = 200
      /\ Wildcard \in authenticate(resp'.arg.token).data.permissions) =>
       resp'.statusCode = 200]_vars

\* C29: getAllUsers, getUserById and updateUserStatus are executed only for
\* a request authenticated with an access token whose role is admin, on the
\* /auth/users routes as well as on the /users routes.
C29_AdminOnlyUserOperations ==
  [][(resp'.op \in AdminOperations /\ resp'.statusCode = 200) =>
       /\ authenticate(resp'.arg.token).statusCode = 200
       /\ authenticate(resp'.arg.token).data.role = "admin"]_vars

(***************************************************************************)
(* Token kinds (properties of SpecTokenKinds).                             *)
(***************************************************************************)
\* C28: a token issued by generateRefreshToken is never accepted by
\* authenticate, and a token issued by generateAccessToken is never accepted
\* by authenticateRefresh or by refreshToken.
C28_TokenKindsNotInterchangeable ==
  [][/\ (resp'.op = "authenticate" /\ resp'.arg \in issued) => resp'.statusCode = 401
     /\ (resp'.op \in {"authenticateRefresh", "refresh"} /\ resp'.arg \in held)
          => resp'.statusCode = 401]_vars

\* a refresh token that is neither expired nor revoked was presented as an
\* access token and refused
C28_Witness ==
  /\ resp.op = "authenticate"
  /\ resp.arg \in issued
  /\ resp.statusCode = 401
  /\ resp.message = "Invalid token"
  /\ verifyRefreshToken(tokens, resp.arg, now).statusCode = 200

(***************************************************************************)
(* Login outcomes of the API test-suite (property of SpecLockout).         *)
(***************************************************************************)
\* C30: a login with an e-mail that matches no user is answered 404 'User
\* not found', and a login with a wrong password for an existing, active,
\* unlocked user is answered 401 'Invalid credentials'.
C30_LoginTellsUnknownUser ==
  /\ hist.noUser # NoOutcome =>
       hist.noUser = Outcome(notFound("User not found"))
  /\ hist.wrongPw # NoOutcome =>
       hist.wrongPw = Outcome(invalidCredentials("Invalid credentials"))

(***************************************************************************)
(* Overlapping logins (property of SpecLoginRace).                         *)
(***************************************************************************)
\* C27: failed-attempt counting is atomic under concurrency: every failed
\* attempt of overlapping login calls for the same unlocked user leaves the
\* stored counter exactly one higher than it was (no two attempts write the
\* same value), and the account is locked once the counter reaches 5.
C27_AtomicFailureCount ==
  [][\A p \in Procs :
       (calls[p].pc = "failed" /\ calls'[p].pc = "idle") =>
         /\ users'[calls[p].uid].loginAttempts = users[calls[p].uid].loginAttempts + 1
         /\ users'[calls[p].uid].loginAttempts >= MaxLoginAttempts
              => isLocked(users'[calls[p].uid], now)]_vars

(***************************************************************************)
(* Registration (properties of SpecRegisterRace).                          *)
(***************************************************************************)
NoSharedEmail ==
  \A u \in DOMAIN users, v \in DOMAIN users : u # v => users[u].email # users[v].email

Disabled(u) == ~users[u].isActive \/ users[u].isDeleted

\* C32: a user whose isActive flag is false or whose isDeleted flag is true
\* obtains no new access token: login fails for that user even with the right
\* password, and refresh fails even with a refresh token whose record is valid.
C32_DisabledUserGetsNoToken ==
  [][/\ (resp'.op = "login"
           /\ \E u \in DOMAIN users :
                users[u].email = toLowerCase(resp'.arg.email) /\ Disabled(u))
          => resp'.statusCode # 200 /\ held' = held /\ issued' = issued
     /\ (resp'.op = "refresh" /\ resp'.arg.payload.id \in DOMAIN users
           /\ Disabled(resp'.arg.payload.id))
          => resp'.statusCode # 200 /\ held' = held]_vars

\* a refresh was refused for a disabled user although the record of the
\* presented token is valid
C32_Witness ==
  /\ resp.op = "refresh" /\ resp.statusCode = 401
  /\ resp.message = "User not found or inactive"
  /\ Disabled(resp.arg.payload.id)
  /\ findValidToken(tokens, resp.arg, "refresh", now) # {}

(***************************************************************************)
(* The counter after a lock has run out (properties of SpecLockout).       *)
(***************************************************************************)
LockExpired(u) == users[u].lockUntil # NoDate /\ ~isLocked(users[u], now)

WrongPasswordFor(u) ==
  /\ resp'.op = "login"
  /\ u \in AccountsOf(resp'.arg.email)
  /\ users[u].isActive
  /\ ~RightPassword(u, resp'.arg.password)
\* a login for an address no account has
UnknownEmailLogin == resp'.op = "login" /\ AccountsOf(resp'.arg.email) = {}

LiveResetTokens(u) == {v \in 1..MaxMinted : resetTokenLive(users[u], v, now)}
LiveVerificationTokens(u) == {v \in 1..MaxMinted : verificationTokenLive(users[u], v, now)}

\* C35: each user has at most one outstanding password-reset token and at most
\* one outstanding e-mail-verification token: forgotPassword and
\* resendVerification replace the previous one, whose value is rejected from
\* then on even before its own expiry.
C35_OneOutstandingToken ==
  /\ [](\A u \in DOMAIN users :
          /\ Cardinality(LiveResetTokens(u)) <= 1
          /\ Cardinality(LiveVerificationTokens(u)) <= 1
          /\ \A m \in mailer.outbox :
               /\ (m.to = users[u].email /\ m.kind = "reset"
                     /\ m.token # users[u].passwordResetToken)
                    => findByResetToken(m.token, now) = NoUser
               /\ (m.to = users[u].email /\ m.kind = "verification"
                     /\ m.token # users[u].emailVerificationToken)
                    => findByVerificationToken(m.token, now) = NoUser)
  /\ [][\A u \in DOMAIN users :
          /\ (resp'.op = "forgotPassword" /\ findByEmail(resp'.arg.email) = u)
               => /\ users'[u].passwordResetToken = randomBytes
                  /\ users'[u].passwordResetToken # users[u].passwordResetToken
                  /\ \A v \in DOMAIN users' :
                       ~resetTokenLive(users'[v], users[u].passwordResetToken, now')
          /\ (resp'.op = "resendVerification" /\ findByEmail(resp'.arg.email) = u
                /\ ~users[u].isEmailVerified)
               => /\ users'[u].emailVerificationToken = randomBytes
                  /\ users'[u].emailVerificationToken # users[u].emailVerificationToken
                  /\ \A v \in DOMAIN users' :
                       ~verificationTokenLive(users'[v], users[u].emailVerificationToken, now')]_vars

\* a reset token that was sent and then replaced was refused before the hour
\* of its own expiry had passed
C35_Witness ==
  /\ resp.op = "resetPassword" /\ resp.statusCode = 400
  /\ now < ResetTTL
  /\ hist.consumed = {}
  /\ \E u \in DOMAIN users :
       /\ users[u].passwordResetToken # NoToken
       /\ users[u].passwordResetToken # resp.arg.token
       /\ \E m \in mailer.outbox :
            m.to = users[u].email /\ m.kind = "reset" /\ m.token = resp.arg.token

(***************************************************************************)
(* Users and deleted roles (properties of SpecRoleRace).                   *)
(***************************************************************************)
\* C36: under any interleaving of deleteRole(r) with assignRole(r, u) or with
\* a registration that takes r as the default role, no user that is not
\* deleted references a role that has been deleted.
C36_NoUserOfDeletedRole ==
  \A u \in DOMAIN users : ~users[u].isDeleted => ~roles[users[u].role].isDeleted

(***************************************************************************)
(* Roles that are switched off (properties of SpecDormantRoles).           *)
(***************************************************************************)
\* C37: the permissions of a role that is inactive or soft-deleted are never
\* put into a newly issued access token: login and refresh for a user of such
\* a role grant none of its permissions.
C37_DormantRoleGrantsNothing ==
  [][(resp'.op \in {"login", "refresh"} /\ resp'.statusCode = 200) =>
       LET token == resp'.data.accessToken
           role == roles[users[token.payload.id].role]
       IN (~role.isActive \/ role.isDeleted)
            => token.payload.permissions \cap role.permissions = {}]_vars

(***************************************************************************)
(* The two role models side by side (properties of SpecGrants).            *)
(***************************************************************************)
\* C38: the MongoDB and the PostgreSQL role model give the same answers: for
\* every permission set, every isActive / isDeleted combination and every
\* argument, the empty list included, hasPermission, hasAnyPermission and
\* hasAllPermissions return the same boolean in both.
C38_RoleModelsAgree ==
  [][LET role == roles[resp'.arg.roleId]
         asked == resp'.arg.asked
     IN /\ resp'.op = "hasPermission" => resp'.data.granted = hasPermissionPg(role, asked)
        /\ resp'.op = "hasPermissionPg" => resp'.data.granted = hasPermission(role, asked)
        /\ resp'.op = "hasAnyPermission" => resp'.data.granted = hasAnyPermissionPg(role, asked)
        /\ resp'.op = "hasAnyPermissionPg" => resp'.data.granted = hasAnyPermission(role, asked)
        /\ resp'.op = "hasAllPermissions" => resp'.data.granted = hasAllPermissionsPg(role, asked)
        /\ resp'.op = "hasAllPermissionsPg" => resp'.data.granted = hasAllPermissions(role, asked)]_vars

(***************************************************************************)
(* The circuit breaker (properties of SpecBreaker).                        *)
(***************************************************************************)
\* C39: while the breaker is OPEN and no more than the timeout has passed
\* since the last failure, every call is rejected without invoking fn; the
\* first call after the timeout invokes fn in HALF_OPEN, its success returns
\* the breaker to CLOSED with the failure count at 0 and its failure returns
\* the breaker to OPEN.
C39_BreakerHalfOpenProbe ==
  [][\A p \in Procs :
       /\ (calls[p].pc = "idle" /\ calls'[p].pc = "invoked" /\ breaker.state = "OPEN")
            => /\ now - breaker.lastFailureTime > BreakerTimeout
               /\ breaker'.state = "HALF_OPEN"
       /\ (calls[p].pc = "invoked" /\ calls'[p].pc = "idle" /\ calls[p].halfOpened)
            => IF resp'.statusCode = 200
               THEN breaker'.state = "CLOSED" /\ breaker'.failures = 0
               ELSE breaker'.state = "OPEN"]_vars
====
